---- MODULE Spec2Model ----
(***************************************************************************)
(* Model of the ops-craft backend: the relational store shared by the      *)
(* FastAPI routes and the Celery worker, the authorization dependencies,   *)
(* the script / secret / execution routes and the worker task.             *)
(*                                                                         *)
(* Tables are sequences indexed by primary key (ids are never reused); a   *)
(* deleted row keeps its slot with live = FALSE.                           *)
(* Route handlers declared `async def` run on the event loop without an    *)
(* await, so each is one atomic action.  `register` is a plain `def`       *)
(* (thread pool) and the Celery task runs in another process: both are     *)
(* split at their database statements.                                     *)
(*                                                                         *)
(* Beside them run the components that share no state with the store: the  *)
(* two encryption services, the two secret migration tools and the three   *)
(* pieces of code that run a script in a container.                        *)
(***************************************************************************)
EXTENDS Integers, Sequences, FiniteSets, TLC

\* ------------------------------------------------------------------ bounds
MaxScripts == 2
MaxExecutions == 2
MaxSecrets == 2
MaxAuditLogs == 3
MaxClock == 2
MaxRegistrations == 3
\* check_rate_limit calls in a run, the ceiling N handed to them, and the
\* seconds of wall clock that may elapse
MaxCalls == 4
MaxRequests == 2
MaxTime == 120
\* live-channel connections opened in a run
MaxConnections == 2
\* frames a connection is sent in a run
MaxFrames == 2
\* characters of a plaintext handed to encrypt
MaxPlain == 2
\* lines a container writes in a run
MaxLines == 2
\* threads of the API process inside check_rate_limit at once
MaxThreads == 2

VARIABLES
    users,              \* table users: Seq of [live, username, email, role, is_active]
    scripts,            \* table scripts: Seq of [live, name]
    secrets,            \* table secrets: Seq of [live, name, last_accessed_at]
    script_secrets,     \* association table: set of <<script_id, secret_id>>
    secret_audit_logs,  \* table secret_audit_logs: Seq of [secret_id, action, execution_id]
    executions,         \* table executions: Seq of execution rows
    tasks,              \* tasks[e]: the worker invocation for execution e
    celery_queue,       \* the messages execute_script_task.delay() sent: Seq of [execution_id, state]
    new_execution,      \* the id create_execution holds between its commit and delay(), or 0
    registrations,      \* in-flight register() calls (thread pool)
    clock,              \* wall clock read by utcnow(), in seconds
    response,           \* the last HTTP response sent
    rate_limiter,       \* the RateLimiter instance: [redis_client, redis, local_cache]
    limiter_log,        \* the check_rate_limit calls made: Seq of [key, at, allowed]
    threads,            \* per thread, its check_rate_limit call on the local cache: [pc, key, current]
    lock,               \* RateLimiter.lock: the thread that holds it, or 0
    tokens,             \* the token pair the last login or refresh returned
    published,          \* per execution id, the events published on "execution:<id>"
    websockets,         \* live-channel connections: Seq of [execution_id, token, state, code, frames, since]
    active_connections, \* ConnectionManager: dict execution id -> set of registered connections
    idle,               \* per connection, the seconds its handler has waited in receive_text
    sending,            \* the send_message call in progress: its snapshot, who got the frame, who is dead
    plaintext,          \* the string last handed to an encrypt
    ciphertext,         \* what that encrypt returned: [format, text]
    outcome,            \* the last encrypt or decrypt call: [op, ok, value, cipher]
    encrypted_values,   \* column secrets.encrypted_value as committed, by secret id
    migration,          \* the run of a migration tool and its database session
    engine              \* one run of an execution engine and its container

\* The calls of check_rate_limit under way on the local cache.
threadVars == <<threads, lock>>

limiterVars == <<rate_limiter, limiter_log, threadVars>>

\* The handler's receive loop and a broadcast under way.
loopVars == <<idle, sending>>

liveVars == <<websockets, active_connections, loopVars>>

cryptoVars == <<plaintext, ciphertext, outcome>>

\* The variables of the components that run beside the API, the worker and
\* the gateway.
migrationVars == <<encrypted_values, migration>>

toolVars == <<cryptoVars, migrationVars, engine>>

\* The task queue and the request that is about to write to it.
dispatchVars == <<celery_queue, new_execution>>

\* A step of the worker: it involves neither the limiter, the client's
\* tokens, the live channel, a direct call of the encryption services nor
\* the task queue.
Silent == UNCHANGED <<limiterVars, tokens, liveVars, toolVars, dispatchVars>>

\* A step of the API that also publishes nothing.
Quiet == Silent /\ UNCHANGED published

\* The tables and the task queue.
dbVars == <<users, scripts, secrets, script_secrets, secret_audit_logs,
            executions, tasks, registrations, dispatchVars>>

vars == <<users, scripts, secrets, script_secrets, secret_audit_logs,
          executions, tasks, registrations, clock, response, limiterVars, tokens,
          published, liveVars, toolVars, dispatchVars>>

NULL == -1

Live(table) == {i \in DOMAIN table : table[i].live}

\* ------------------------------------------------------------ users, roles
UserRole == {"admin", "operator", "viewer"}

role_hierarchy(role) ==
    CASE role = "viewer" -> 1
      [] role = "operator" -> 2
      [] role = "admin" -> 3
      [] OTHER -> 0

has_permission_strict(role, required_role) ==
    role_hierarchy(role) > role_hierarchy(required_role)

has_permission(role, required_role) ==
    role_hierarchy(role) >= role_hierarchy(required_role)

\* ------------------------------------------------------------ credentials
\* What a request carries in its Authorization header.  scheme "none": no
\* header; valid = FALSE: a token jwt.decode rejects (bad signature, expired).
NoCredentials ==
    [scheme |-> "none", valid |-> FALSE, type |-> "absent", sub |-> FALSE, user_id |-> 0,
     exp |-> 0]

BadToken ==
    [scheme |-> "bearer", valid |-> FALSE, type |-> "access", sub |-> TRUE, user_id |-> 0,
     exp |-> 0]

\* settings.ACCESS_TOKEN_EXPIRE_MINUTES and settings.REFRESH_TOKEN_EXPIRE_DAYS,
\* in ticks of the clock
ACCESS_TOKEN_EXPIRE == 1
REFRESH_TOKEN_EXPIRE == 2

create_access_token(user_id) ==
    [scheme |-> "bearer", valid |-> TRUE, type |-> "access", sub |-> TRUE, user_id |-> user_id,
     exp |-> clock + ACCESS_TOKEN_EXPIRE]

create_refresh_token(user_id) ==
    [scheme |-> "bearer", valid |-> TRUE, type |-> "refresh", sub |-> TRUE, user_id |-> user_id,
     exp |-> clock + REFRESH_TOKEN_EXPIRE]

\* jwt.decode checks the signature and the expiry.
decode_token(token) ==
    IF token.valid /\ clock <= token.exp
    THEN [present |-> TRUE, type |-> token.type, sub |-> token.sub, user_id |-> token.user_id]
    ELSE [present |-> FALSE, type |-> "absent", sub |-> FALSE, user_id |-> 0]

create_tokens(user_id) ==
    [access_token |-> create_access_token(user_id),
     refresh_token |-> create_refresh_token(user_id)]

\* No token pair has been issued.
NoTokens == [access_token |-> NoCredentials, refresh_token |-> NoCredentials]

Allow(user_id) == [status_code |-> 200, detail |-> "", user |-> user_id]
Deny(code, detail) == [status_code |-> code, detail |-> detail, user |-> 0]

credentials_exception == Deny(401, "Could not validate credentials")
inactive_exception == Deny(403, "User account is inactive")

get_current_user(credentials) ==
    IF credentials.scheme = "none" THEN Deny(403, "Not authenticated")   \* HTTPBearer
    ELSE LET payload == decode_token(credentials) IN
         IF ~payload.present THEN credentials_exception
         ELSE IF ~payload.sub \/ payload.user_id = 0 THEN credentials_exception
         ELSE IF payload.type # "absent" /\ payload.type # "access"
              THEN Deny(401, "Invalid token type")
         ELSE IF payload.user_id \notin Live(users) THEN credentials_exception
         ELSE IF ~users[payload.user_id].is_active THEN inactive_exception
         ELSE Allow(payload.user_id)

get_current_active_user(credentials) ==
    LET current == get_current_user(credentials) IN
    IF current.status_code # 200 THEN current
    ELSE IF ~users[current.user].is_active THEN Deny(403, "Inactive user")
    ELSE current

RoleRequired(required_role) ==
    CASE required_role = "admin" -> "Operation requires admin role or higher"
      [] required_role = "operator" -> "Operation requires operator role or higher"
      [] OTHER -> "Operation requires viewer role or higher"

RoleChecker_any_role(required_role, credentials) ==
    get_current_active_user(credentials)

RoleChecker(required_role, credentials) ==
    LET current == get_current_active_user(credentials) IN
    IF current.status_code # 200 THEN current
    ELSE IF ~has_permission(users[current.user].role, required_role)
         THEN Deny(403, RoleRequired(required_role))
    ELSE current

require_admin(credentials) == RoleChecker("admin", credentials)
require_operator(credentials) == RoleChecker("operator", credentials)

\* No dependency on the caller: the route runs for any request.
Unauthenticated(credentials) == Allow(0)

\* An HTTP response: n is the id or the count the body carries.
Reply(route, status_code, n) ==
    [route |-> route, status_code |-> status_code, detail |-> "", n |-> n]

\* The response of a request its dependency rejected.
Denied(route, auth) ==
    [route |-> route, status_code |-> auth.status_code, detail |-> auth.detail, n |-> 0]

\* ------------------------------------------------- InputValidator (names)
\* A string is a sequence of characters; LF, CR and NUL stand for "\n", "\r"
\* and "\x00".
Whitespace == {" ", "LF", "CR"}

NameMaxLength == 255

RECURSIVE Replace(_, _, _)
\* str.replace(old, new) for a one-character old; new is a string.
Replace(value, old, new) ==
    IF value = <<>> THEN <<>>
    ELSE (IF Head(value) = old THEN new ELSE <<Head(value)>>) \o Replace(Tail(value), old, new)

RECURSIVE LStrip(_)
LStrip(value) ==
    IF value # <<>> /\ Head(value) \in Whitespace THEN LStrip(Tail(value)) ELSE value

RECURSIVE RStrip(_)
RStrip(value) ==
    IF value # <<>> /\ value[Len(value)] \in Whitespace
    THEN RStrip(SubSeq(value, 1, Len(value) - 1)) ELSE value

\* str.strip()
Strip(value) == RStrip(LStrip(value))

\* The characters of the names used below are "a", "b", " ", LF and NUL.  The
\* re.sub pass over XSS_PATTERNS is left out: every pattern needs one of "<",
\* ":" or "=", which no such name holds.

sanitize_string(value, max_length, allow_newlines) ==
    IF value = <<>> THEN <<>>
    ELSE LET trimmed == SubSeq(value, 1, IF Len(value) < max_length THEN Len(value) ELSE max_length)
             no_nul == Replace(trimmed, "NUL", <<>>)
             no_nl == IF allow_newlines THEN no_nul
                      ELSE Replace(Replace(no_nul, "LF", <<" ">>), "CR", <<>>)
         IN Strip(no_nl)

\* ------------------------------------------------------------ scripts API
ActiveExecutions(script_id) ==
    {e \in DOMAIN executions :
        /\ executions[e].script_id = script_id
        /\ executions[e].status \in {"pending", "running"}}

ScriptNamed(name) == {i \in Live(scripts) : scripts[i].name = name}

\* GET /scripts/
list_scripts(credentials) ==
    LET auth == get_current_user(credentials) IN
    /\ response' = Denied("list_scripts", auth)
    /\ UNCHANGED <<users, scripts, secrets, script_secrets, secret_audit_logs,
                   executions, tasks, registrations, clock>>

\* POST /scripts/ ; content_valid and parameters_valid are the verdicts of
\* validate_script_content and validate_json_structure on the request body.
create_script(credentials, name, content_valid, parameters_valid) ==
    LET auth == require_operator(credentials)
        clean == sanitize_string(name, NameMaxLength, FALSE)
    IN
    /\ Len(scripts) < MaxScripts
    /\ IF auth.status_code # 200 THEN
            /\ response' = Denied("create_script", auth)
            /\ UNCHANGED scripts
       ELSE IF ~content_valid \/ clean = <<>> THEN
            /\ response' = Reply("create_script", 400, 0)
            /\ UNCHANGED scripts
       ELSE IF ScriptNamed(clean) # {} THEN
            /\ response' = Reply("create_script", 409, 0)
            /\ UNCHANGED scripts
       ELSE IF ~parameters_valid THEN
            /\ response' = Reply("create_script", 400, 0)
            /\ UNCHANGED scripts
       ELSE
            /\ scripts' = Append(scripts, [live |-> TRUE, name |-> clean, updated_by |-> auth.user])
            /\ response' = Reply("create_script", 201, Len(scripts) + 1)
    /\ UNCHANGED <<users, secrets, script_secrets, secret_audit_logs,
                   executions, tasks, registrations, clock>>

update_script_unchecked(credentials, script_id, name_set, name, content_valid, parameters_valid) ==
    LET auth == require_operator(credentials)
        clean == sanitize_string(name, NameMaxLength, FALSE)
    IN
    /\ IF auth.status_code # 200 THEN
            /\ response' = Denied("update_script", auth)
            /\ UNCHANGED scripts
       ELSE IF script_id < 1 THEN
            /\ response' = Reply("update_script", 400, 0)
            /\ UNCHANGED scripts
       ELSE IF script_id \notin Live(scripts) THEN
            /\ response' = Reply("update_script", 404, 0)
            /\ UNCHANGED scripts
       ELSE IF ~content_valid \/ ~parameters_valid THEN
            /\ response' = Reply("update_script", 400, 0)
            /\ UNCHANGED scripts
       ELSE
            /\ scripts' = [scripts EXCEPT ![script_id] =
                    [live |-> TRUE,
                     name |-> IF name_set THEN clean ELSE @.name,
                     updated_by |-> auth.user]]
            /\ response' = Reply("update_script",
                                 IF scripts'[script_id].name = <<>> THEN 500 ELSE 200,
                                 script_id)
    /\ UNCHANGED <<users, secrets, script_secrets, secret_audit_logs,
                   executions, tasks, registrations, clock>>

\* PUT /scripts/{script_id} ; name_set: the body carries a name.  The name is
\* sanitized but not checked for emptiness; the row is committed before the
\* response model (name of at least one character) is applied to it.
update_script(credentials, script_id, name_set, name, content_valid, parameters_valid) ==
    LET auth == require_operator(credentials)
        clean == sanitize_string(name, NameMaxLength, FALSE)
    IN
    /\ IF auth.status_code # 200 THEN
            /\ response' = Denied("update_script", auth)
            /\ UNCHANGED scripts
       ELSE IF script_id < 1 THEN
            /\ response' = Reply("update_script", 400, 0)
            /\ UNCHANGED scripts
       ELSE IF script_id \notin Live(scripts) THEN
            /\ response' = Reply("update_script", 404, 0)
            /\ UNCHANGED scripts
       ELSE IF ~content_valid THEN
            /\ response' = Reply("update_script", 400, 0)
            /\ UNCHANGED scripts
       ELSE IF name_set /\ ScriptNamed(clean) \ {script_id} # {} THEN
            /\ response' = Reply("update_script", 409, 0)
            /\ UNCHANGED scripts
       ELSE IF ~parameters_valid THEN
            /\ response' = Reply("update_script", 400, 0)
            /\ UNCHANGED scripts
       ELSE
            /\ scripts' = [scripts EXCEPT ![script_id] =
                    [live |-> TRUE,
                     name |-> IF name_set THEN clean ELSE @.name,
                     updated_by |-> auth.user]]
            /\ response' = Reply("update_script",
                                 IF scripts'[script_id].name = <<>> THEN 500 ELSE 200,
                                 script_id)
    /\ UNCHANGED <<users, secrets, script_secrets, secret_audit_logs,
                   executions, tasks, registrations, clock>>

\* DELETE /scripts/{script_id} ; Script.secrets is a relationship over the
\* association table, so db.delete(script) also removes the script's rows of it.
delete_script(credentials, script_id) ==
    LET auth == require_operator(credentials) IN
    /\ IF auth.status_code # 200 THEN
            /\ response' = Denied("delete_script", auth)
            /\ UNCHANGED <<scripts, script_secrets>>
       ELSE IF script_id < 1 THEN
            /\ response' = Reply("delete_script", 400, 0)
            /\ UNCHANGED <<scripts, script_secrets>>
       ELSE IF script_id \notin Live(scripts) THEN
            /\ response' = Reply("delete_script", 404, 0)
            /\ UNCHANGED <<scripts, script_secrets>>
       ELSE IF ActiveExecutions(script_id) # {} THEN
            /\ response' = Reply("delete_script", 409, Cardinality(ActiveExecutions(script_id)))
            /\ UNCHANGED <<scripts, script_secrets>>
       ELSE
            /\ scripts' = [scripts EXCEPT ![script_id].live = FALSE]
            /\ script_secrets' = {a \in script_secrets : a[1] # script_id}
            /\ response' = Reply("delete_script", 204, 0)
    /\ UNCHANGED <<users, secrets, secret_audit_logs,
                   executions, tasks, registrations, clock>>

\* --------------------------------------------------------- executions API
NewExecution(script_id, user_id) ==
    [script_id |-> script_id, status |-> "pending", executed_by |-> user_id,
     started_at |-> NULL, completed_at |-> NULL, error |-> "none", output |-> FALSE]

NewTask == [pc |-> "queued", exit |-> "none", todo |-> {}, injected |-> 0]

\* GET /executions
list_executions(credentials) ==
    LET auth == Unauthenticated(credentials) IN
    /\ response' = Reply("list_executions", 200, Len(executions))
    /\ UNCHANGED <<users, scripts, secrets, script_secrets, secret_audit_logs,
                   executions, tasks, registrations, clock>>

\* GET /executions/{execution_id}
get_execution(credentials, execution_id) ==
    LET auth == Unauthenticated(credentials) IN
    /\ response' = IF execution_id \in DOMAIN executions
                   THEN Reply("get_execution", 200, execution_id)
                   ELSE Reply("get_execution", 404, 0)
    /\ UNCHANGED <<users, scripts, secrets, script_secrets, secret_audit_logs,
                   executions, tasks, registrations, clock>>

\* POST /executions ; execute_script_task.delay() puts the task on the queue.
create_execution(credentials, script_id) ==
    LET auth == get_current_user(credentials) IN
    /\ Len(executions) < MaxExecutions
    /\ IF auth.status_code # 200 THEN
            /\ response' = Denied("create_execution", auth)
            /\ UNCHANGED <<executions, tasks>>
       ELSE IF script_id \notin Live(scripts) THEN
            /\ response' = Reply("create_execution", 404, 0)
            /\ UNCHANGED <<executions, tasks>>
       ELSE
            /\ executions' = Append(executions, NewExecution(script_id, auth.user))
            /\ tasks' = Append(tasks, NewTask)
            /\ response' = Reply("create_execution", 201, Len(executions) + 1)
    /\ UNCHANGED <<users, scripts, secrets, script_secrets, secret_audit_logs,
                   registrations, clock>>

cancel_execution_any_status(credentials, execution_id) ==
    LET auth == Unauthenticated(credentials) IN
    /\ IF execution_id \notin DOMAIN executions THEN
            /\ response' = Reply("cancel_execution", 404, 0)
            /\ UNCHANGED executions
       ELSE
            /\ executions' = [executions EXCEPT ![execution_id].status = "cancelled"]
            /\ response' = Reply("cancel_execution", 200, execution_id)
    /\ UNCHANGED <<users, scripts, secrets, script_secrets, secret_audit_logs,
                   tasks, registrations, clock>>

\* POST /executions/{execution_id}/cancel
cancel_execution(credentials, execution_id) ==
    LET auth == Unauthenticated(credentials) IN
    /\ IF execution_id \notin DOMAIN executions THEN
            /\ response' = Reply("cancel_execution", 404, 0)
            /\ UNCHANGED executions
       ELSE IF executions[execution_id].status \notin {"running", "pending"} THEN
            /\ response' = Reply("cancel_execution", 400, 0)
            /\ UNCHANGED executions
       ELSE
            /\ executions' = [executions EXCEPT ![execution_id].status = "cancelled"]
            /\ response' = Reply("cancel_execution", 200, execution_id)
    /\ UNCHANGED <<users, scripts, secrets, script_secrets, secret_audit_logs,
                   tasks, registrations, clock>>

\* ------------------------------------------------------ SecretService
SecretNamed(name) == {i \in Live(secrets) : secrets[i].name = name}

AuditRow(secret_id, action, execution_id) ==
    [secret_id |-> secret_id, action |-> action, execution_id |-> execution_id]

\* The two tables log_access writes, as <<secret_audit_logs, secrets>>.
log_access(secret_id, action, execution_id) ==
    <<Append(secret_audit_logs, AuditRow(secret_id, action, execution_id)),
      IF action \in {"accessed", "injected"}
      THEN [secrets EXCEPT ![secret_id].last_accessed_at = clock]
      ELSE secrets>>

\* ------------------------------------------------------------ secrets API
\* POST /secrets
create_secret(credentials, name) ==
    LET auth == require_operator(credentials) IN
    /\ Len(secrets) < MaxSecrets
    /\ IF auth.status_code # 200 THEN
            /\ response' = Denied("create_secret", auth)
            /\ UNCHANGED secrets
       ELSE IF SecretNamed(name) # {} THEN
            /\ response' = Reply("create_secret", 400, 0)
            /\ UNCHANGED secrets
       ELSE
            /\ secrets' = Append(secrets, [live |-> TRUE, name |-> name, last_accessed_at |-> NULL])
            /\ response' = Reply("create_secret", 201, Len(secrets) + 1)
    /\ UNCHANGED <<users, scripts, script_secrets, secret_audit_logs,
                   executions, tasks, registrations, clock>>

\* The body shared by GET /secrets/{secret_id} and GET /secrets/name/{name}:
\* found is the set of rows the query matched; decrypt_ok is whether
\* encryption_service.decrypt returns rather than raises.
ReadSecret(route, credentials, found, decrypt_ok) ==
    LET auth == require_operator(credentials) IN
    /\ IF auth.status_code # 200 THEN
            /\ response' = Denied(route, auth)
            /\ UNCHANGED secrets
       ELSE IF found = {} THEN
            /\ response' = Reply(route, 404, 0)
            /\ UNCHANGED secrets
       ELSE LET secret_id == CHOOSE i \in found : TRUE IN
            /\ secrets' = [secrets EXCEPT ![secret_id].last_accessed_at = clock]
            /\ response' = IF decrypt_ok THEN Reply(route, 200, secret_id)
                           ELSE Reply(route, 500, 0)
    /\ UNCHANGED <<users, scripts, script_secrets, secret_audit_logs,
                   executions, tasks, registrations, clock>>

\* GET /secrets/{secret_id}
get_secret(credentials, secret_id, decrypt_ok) ==
    ReadSecret("get_secret", credentials, {secret_id} \cap Live(secrets), decrypt_ok)

\* GET /secrets/name/{secret_name}
get_secret_by_name(credentials, name, decrypt_ok) ==
    ReadSecret("get_secret_by_name", credentials, SecretNamed(name), decrypt_ok)

UsageCount(secret_id) == Cardinality({a \in script_secrets : a[2] = secret_id})

delete_secret_unguarded(credentials, secret_id) ==
    LET auth == require_operator(credentials) IN
    /\ IF auth.status_code # 200 THEN
            /\ response' = Denied("delete_secret", auth)
            /\ UNCHANGED <<secrets, secret_audit_logs>>
       ELSE IF secret_id \notin Live(secrets) THEN
            /\ response' = Reply("delete_secret", 404, 0)
            /\ UNCHANGED <<secrets, secret_audit_logs>>
       ELSE
            /\ secrets' = [secrets EXCEPT ![secret_id].live = FALSE]
            /\ secret_audit_logs' = SelectSeq(secret_audit_logs, LAMBDA row : row.secret_id # secret_id)
            /\ response' = Reply("delete_secret", 204, 0)
    /\ UNCHANGED <<users, scripts, script_secrets,
                   executions, tasks, registrations, clock>>

\* DELETE /secrets/{secret_id} ; the audit rows of the secret go with it
\* (secret_audit_logs.secret_id is ON DELETE CASCADE).
delete_secret(credentials, secret_id) ==
    LET auth == require_operator(credentials) IN
    /\ IF auth.status_code # 200 THEN
            /\ response' = Denied("delete_secret", auth)
            /\ UNCHANGED <<secrets, secret_audit_logs>>
       ELSE IF secret_id \notin Live(secrets) THEN
            /\ response' = Reply("delete_secret", 404, 0)
            /\ UNCHANGED <<secrets, secret_audit_logs>>
       ELSE IF UsageCount(secret_id) > 0 THEN
            /\ response' = Reply("delete_secret", 400, UsageCount(secret_id))
            /\ UNCHANGED <<secrets, secret_audit_logs>>
       ELSE
            /\ secrets' = [secrets EXCEPT ![secret_id].live = FALSE]
            /\ secret_audit_logs' = SelectSeq(secret_audit_logs, LAMBDA row : row.secret_id # secret_id)
            /\ response' = Reply("delete_secret", 204, 0)
    /\ UNCHANGED <<users, scripts, script_secrets,
                   executions, tasks, registrations, clock>>

\* POST /scripts/{script_id}/secrets/{secret_id}
attach_secret_to_script(credentials, script_id, secret_id) ==
    LET auth == require_operator(credentials) IN
    /\ Len(secret_audit_logs) < MaxAuditLogs
    /\ IF auth.status_code # 200 THEN
            /\ response' = Denied("attach_secret_to_script", auth)
            /\ UNCHANGED <<script_secrets, secret_audit_logs, secrets>>
       ELSE IF script_id < 1 \/ secret_id < 1 THEN
            /\ response' = Reply("attach_secret_to_script", 400, 0)
            /\ UNCHANGED <<script_secrets, secret_audit_logs, secrets>>
       ELSE IF script_id \notin Live(scripts) \/ secret_id \notin Live(secrets) THEN
            /\ response' = Reply("attach_secret_to_script", 404, 0)
            /\ UNCHANGED <<script_secrets, secret_audit_logs, secrets>>
       ELSE IF <<script_id, secret_id>> \in script_secrets THEN
            /\ response' = Reply("attach_secret_to_script", 400, 0)
            /\ UNCHANGED <<script_secrets, secret_audit_logs, secrets>>
       ELSE
            /\ script_secrets' = script_secrets \cup {<<script_id, secret_id>>}
            /\ secret_audit_logs' = log_access(secret_id, "attached_to_script", NULL)[1]
            /\ secrets' = log_access(secret_id, "attached_to_script", NULL)[2]
            /\ response' = Reply("attach_secret_to_script", 200, 0)
    /\ UNCHANGED <<users, scripts, executions, tasks, registrations, clock>>

\* DELETE /scripts/{script_id}/secrets/{secret_id}
detach_secret_from_script(credentials, script_id, secret_id) ==
    LET auth == require_operator(credentials) IN
    /\ IF auth.status_code # 200 THEN
            /\ response' = Denied("detach_secret_from_script", auth)
            /\ UNCHANGED script_secrets
       ELSE IF script_id < 1 \/ secret_id < 1 THEN
            /\ response' = Reply("detach_secret_from_script", 400, 0)
            /\ UNCHANGED script_secrets
       ELSE IF script_id \notin Live(scripts) \/ secret_id \notin Live(secrets) THEN
            /\ response' = Reply("detach_secret_from_script", 404, 0)
            /\ UNCHANGED script_secrets
       ELSE IF <<script_id, secret_id>> \notin script_secrets THEN
            /\ response' = Reply("detach_secret_from_script", 400, 0)
            /\ UNCHANGED script_secrets
       ELSE
            /\ script_secrets' = script_secrets \ {<<script_id, secret_id>>}
            /\ response' = Reply("detach_secret_from_script", 200, 0)
    /\ UNCHANGED <<users, scripts, secrets, secret_audit_logs,
                   executions, tasks, registrations, clock>>

\* ------------------------------------------------- worker: execute_script_task
SetTask(e, pc) == [tasks EXCEPT ![e].pc = pc]

\* send_status and send_log, lines 37-50: one publish on the channel of the
\* execution.  published keeps every event handed to publish, in order.
Status(status) == [type |-> "status", body |-> status]
Log(log_type, content) == [type |-> "log", body |-> content]
send(e, events) == [published EXCEPT ![e] = @ \o events]

\* Lines 62-72: load the execution and its script; a missing script ends the
\* task with the execution failed.
task_load(e) ==
    /\ tasks[e].pc = "queued"
    /\ IF executions[e].script_id \notin Live(scripts) THEN
            /\ executions' = [executions EXCEPT ![e].status = "failed",
                                                ![e].error = "script_not_found"]
            /\ tasks' = SetTask(e, "done")
       ELSE
            /\ tasks' = SetTask(e, "have_script")
            /\ UNCHANGED executions
    /\ UNCHANGED <<users, scripts, secrets, script_secrets, secret_audit_logs,
                   registrations, clock, response, published>>

\* Lines 76-84: the row is written from the object loaded by task_load,
\* whatever status the table holds by now; then the first events are sent.
task_mark_running(e) ==
    /\ tasks[e].pc = "have_script"
    /\ executions' = [executions EXCEPT ![e].status = "running",
                                        ![e].started_at = clock]
    /\ tasks' = SetTask(e, "running")
    /\ published' = send(e, << Status("running"), Log("info", "starting"),
                               Log("info", "type") >>)
    /\ UNCHANGED <<users, scripts, secrets, script_secrets, secret_audit_logs,
                   registrations, clock, response>>

\* get_secrets_for_script, lines 105-111: the names of the attached secrets.
task_get_secrets(e) ==
    LET script_id == executions[e].script_id IN
    /\ tasks[e].pc = "running"
    /\ tasks' = [tasks EXCEPT ![e].pc = "injecting",
                              ![e].todo = IF script_id \notin Live(scripts) THEN {}
                                          ELSE {secrets[a[2]].name : a \in {b \in script_secrets : b[1] = script_id}}]
    /\ UNCHANGED <<users, scripts, secrets, script_secrets, secret_audit_logs,
                   executions, registrations, clock, response, published>>

\* get_secret_value for one attached secret.  A decrypt that raises leaves
\* the task through its outer handler (lines 159-162), which only logs and
\* returns: exit "fatal" records that the invocation ended there.  The task
\* is declared without retry options (line 53) and returns normally, so the
\* queue acknowledges it and never delivers it again.
task_inject_secret(e, name, decrypt_ok) ==
    LET found == SecretNamed(name)
        secret_id == CHOOSE i \in found : TRUE
    IN
    /\ tasks[e].pc = "injecting"
    /\ name \in tasks[e].todo
    /\ Len(secret_audit_logs) < MaxAuditLogs
    /\ IF found = {} THEN
            /\ tasks' = [tasks EXCEPT ![e].todo = @ \ {name}]
            /\ UNCHANGED <<secrets, secret_audit_logs>>
       ELSE IF ~decrypt_ok THEN
            /\ tasks' = [tasks EXCEPT ![e].pc = "done", ![e].todo = {},
                                      ![e].exit = "fatal"]
            /\ UNCHANGED <<secrets, secret_audit_logs>>
       ELSE
            /\ secret_audit_logs' = log_access(secret_id, "injected", e)[1]
            /\ secrets' = log_access(secret_id, "injected", e)[2]
            /\ tasks' = [tasks EXCEPT ![e].todo = @ \ {name}, ![e].injected = @ + 1]
    /\ UNCHANGED <<users, scripts, script_secrets, executions,
                   registrations, clock, response, published>>

\* Lines 95-148: the log line about the secrets, the container run with the
\* lines it streams, and the closing log line; exit is "zero", "nonzero" or
\* "raised" (an exception inside the inner try).
task_execute(e, exit) ==
    /\ tasks[e].pc = "injecting"
    /\ tasks[e].todo = {}
    /\ tasks' = [tasks EXCEPT ![e].pc = "executed", ![e].exit = exit]
    /\ published' = send(e,
            (IF tasks[e].injected > 0 THEN << Log("info", "injected") >> ELSE << >>)
            \o << Log("info", "executing"), Log("info", "rule") >>
            \o (IF exit = "raised" THEN << Log("error", "error") >>
                ELSE << Log("info", "container"), Log("stdout", "line"), Log("info", "rule"),
                        IF exit = "zero" THEN Log("info", "completed")
                        ELSE Log("error", "failed") >>))
    /\ UNCHANGED <<users, scripts, secrets, script_secrets, secret_audit_logs,
                   executions, registrations, clock, response>>

\* Lines 135-155 with line 136 storing stderr whatever the exit code.
task_commit_result_keeps_stderr(e) ==
    LET exit == tasks[e].exit IN
    /\ tasks[e].pc = "executed"
    /\ executions' = [executions EXCEPT
            ![e].status = IF exit = "zero" THEN "success" ELSE "failed",
            ![e].error = IF exit = "raised" THEN "exception" ELSE "stderr",
            ![e].output = IF exit = "raised" THEN @ ELSE TRUE,
            ![e].completed_at = clock]
    /\ tasks' = SetTask(e, "done")
    /\ published' = send(e, << Status(IF exit = "zero" THEN "success" ELSE "failed") >>)
    /\ UNCHANGED <<users, scripts, secrets, script_secrets, secret_audit_logs,
                   registrations, clock, response>>

\* Lines 135-155: the result is written and committed, and the final status
\* is sent.
task_commit_result(e) ==
    LET exit == tasks[e].exit IN
    /\ tasks[e].pc = "executed"
    /\ executions' = [executions EXCEPT
            ![e].status = IF exit = "zero" THEN "success" ELSE "failed",
            ![e].error = CASE exit = "zero" -> "none"
                           [] exit = "nonzero" -> "stderr"
                           [] OTHER -> "exception",
            ![e].output = IF exit = "raised" THEN @ ELSE TRUE,
            ![e].completed_at = clock]
    /\ tasks' = SetTask(e, "done")
    /\ published' = send(e, << Status(IF exit = "zero" THEN "success" ELSE "failed") >>)
    /\ UNCHANGED <<users, scripts, secrets, script_secrets, secret_audit_logs,
                   registrations, clock, response>>

\* ------------------------------------------------------- auth and admin API
UserNamed(username) == {i \in Live(users) : users[i].username = username}
UserWithEmail(email) == {i \in Live(users) : users[i].email = email}

\* POST /auth/register runs in the thread pool; each call has its own
\* session and is split at its four database statements.
\* Line 30: the request arrives and the username is looked up.
register_check_username(username, email) ==
    /\ Len(registrations) < MaxRegistrations
    /\ IF UserNamed(username) # {} THEN
            /\ registrations' = Append(registrations,
                    [pc |-> "done", username |-> username, email |-> email, role |-> "none"])
            /\ response' = Reply("register", 400, 0)
       ELSE
            /\ registrations' = Append(registrations,
                    [pc |-> "check_email", username |-> username, email |-> email, role |-> "none"])
            /\ UNCHANGED response
    /\ UNCHANGED <<users, scripts, secrets, script_secrets, secret_audit_logs,
                   executions, tasks, clock>>

\* Line 37
register_check_email(r) ==
    /\ registrations[r].pc = "check_email"
    /\ IF UserWithEmail(registrations[r].email) # {} THEN
            /\ registrations' = [registrations EXCEPT ![r].pc = "done"]
            /\ response' = Reply("register", 400, 0)
       ELSE
            /\ registrations' = [registrations EXCEPT ![r].pc = "count"]
            /\ UNCHANGED response
    /\ UNCHANGED <<users, scripts, secrets, script_secrets, secret_audit_logs,
                   executions, tasks, clock>>

\* Line 50: the role is decided from the number of rows committed so far.
register_count(r) ==
    /\ registrations[r].pc = "count"
    /\ registrations' = [registrations EXCEPT
            ![r].pc = "commit",
            ![r].role = IF Live(users) = {} THEN "admin" ELSE "viewer"]
    /\ UNCHANGED <<users, scripts, secrets, script_secrets, secret_audit_logs,
                   executions, tasks, clock, response>>

\* Lines 53-55: the insert; the unique indexes on username and email make
\* the commit of a duplicate raise (500).
register_commit(r) ==
    LET call == registrations[r] IN
    /\ call.pc = "commit"
    /\ registrations' = [registrations EXCEPT ![r].pc = "done"]
    /\ IF UserNamed(call.username) # {} \/ UserWithEmail(call.email) # {} THEN
            /\ response' = Reply("register", 500, 0)
            /\ UNCHANGED users
       ELSE
            /\ users' = Append(users, [live |-> TRUE, username |-> call.username,
                                       email |-> call.email, role |-> call.role,
                                       is_active |-> TRUE, last_login |-> NULL])
            /\ response' = Reply("register", 201, Len(users) + 1)
    /\ UNCHANGED <<scripts, secrets, script_secrets, secret_audit_logs,
                   executions, tasks, clock>>

\* GET /auth/me
get_current_user_info(credentials) ==
    LET auth == get_current_active_user(credentials) IN
    /\ response' = IF auth.status_code # 200 THEN Denied("get_current_user_info", auth)
                   ELSE Reply("get_current_user_info", 200, auth.user)
    /\ UNCHANGED <<users, scripts, secrets, script_secrets, secret_audit_logs,
                   executions, tasks, registrations, clock>>

\* GET /admin/users
list_users(credentials) ==
    LET auth == require_admin(credentials) IN
    /\ response' = IF auth.status_code # 200 THEN Denied("list_users", auth)
                   ELSE Reply("list_users", 200, Cardinality(Live(users)))
    /\ UNCHANGED <<users, scripts, secrets, script_secrets, secret_audit_logs,
                   executions, tasks, registrations, clock>>

\* PUT /admin/users/{user_id} ; role and is_active are "unset" when the body
\* leaves them out (the body's email, full_name and password are left unset).
update_user(credentials, user_id, role, is_active) ==
    LET auth == require_admin(credentials) IN
    /\ IF auth.status_code # 200 THEN
            /\ response' = Denied("update_user", auth)
            /\ UNCHANGED users
       ELSE IF user_id \notin Live(users) THEN
            /\ response' = Reply("update_user", 404, 0)
            /\ UNCHANGED users
       ELSE IF user_id = auth.user /\ role # "unset" /\ role # "admin" THEN
            /\ response' = Reply("update_user", 400, 0)
            /\ UNCHANGED users
       ELSE
            /\ users' = [users EXCEPT
                    ![user_id].role = IF role = "unset" THEN @ ELSE role,
                    ![user_id].is_active = IF is_active = "unset" THEN @ ELSE is_active = "true"]
            /\ response' = Reply("update_user", 200, user_id)
    /\ UNCHANGED <<scripts, secrets, script_secrets, secret_audit_logs,
                   executions, tasks, registrations, clock>>

LoginResult_no_active_check(username, password_ok) ==
    IF UserNamed(username) = {} \/ ~password_ok
    THEN Deny(401, "Incorrect username or password")
    ELSE Allow(CHOOSE i \in UserNamed(username) : TRUE)


LoginResult_active_first(username, password_ok) ==
    IF UserNamed(username) = {} THEN Deny(401, "Incorrect username or password")
    ELSE LET user_id == CHOOSE i \in UserNamed(username) : TRUE IN
         IF ~users[user_id].is_active THEN inactive_exception
         ELSE IF ~password_ok THEN Deny(401, "Incorrect username or password")
         ELSE Allow(user_id)


\* The answer of POST /auth/login before anything is written; password_ok is
\* the result of verify_password against the stored hash.
LoginResult(username, password_ok) ==
    IF UserNamed(username) = {} \/ ~password_ok
    THEN Deny(401, "Incorrect username or password")
    ELSE LET user_id == CHOOSE i \in UserNamed(username) : TRUE IN
         IF ~users[user_id].is_active THEN inactive_exception
         ELSE Allow(user_id)

\* POST /auth/login
login(username, password_ok) ==
    LET auth == LoginResult(username, password_ok) IN
    /\ IF auth.status_code # 200 THEN
            /\ response' = Denied("login", auth)
            /\ UNCHANGED <<users, tokens>>
       ELSE
            /\ users' = [users EXCEPT ![auth.user].last_login = clock]
            /\ tokens' = create_tokens(auth.user)
            /\ response' = Reply("login", 200, auth.user)
    /\ UNCHANGED <<scripts, secrets, script_secrets, secret_audit_logs,
                   executions, tasks, registrations, clock>>

RefreshResult_any_type(token) ==
    LET payload == decode_token(token) IN
    IF ~payload.present THEN Deny(401, "Invalid refresh token")
    ELSE IF payload.user_id \notin Live(users) \/ ~users[payload.user_id].is_active
         THEN Deny(401, "User not found or inactive")
    ELSE Allow(payload.user_id)

\* The checks of POST /auth/refresh on the token it is handed.
RefreshResult(token) ==
    LET payload == decode_token(token) IN
    IF ~payload.present \/ payload.type # "refresh"
    THEN Deny(401, "Invalid refresh token")
    ELSE IF payload.user_id \notin Live(users) \/ ~users[payload.user_id].is_active
         THEN Deny(401, "User not found or inactive")
    ELSE Allow(payload.user_id)

\* POST /auth/refresh
refresh_token(token) ==
    LET auth == RefreshResult(token) IN
    /\ IF auth.status_code # 200 THEN
            /\ response' = Denied("refresh_token", auth)
            /\ UNCHANGED tokens
       ELSE
            /\ tokens' = create_tokens(auth.user)
            /\ response' = Reply("refresh_token", 200, auth.user)
    /\ UNCHANGED <<dbVars, clock>>

delete_user_no_self_guard(credentials, user_id) ==
    LET auth == require_admin(credentials) IN
    /\ IF auth.status_code # 200 THEN
            /\ response' = Denied("delete_user", auth)
            /\ UNCHANGED users
       ELSE IF user_id \notin Live(users) THEN
            /\ response' = Reply("delete_user", 404, 0)
            /\ UNCHANGED users
       ELSE
            /\ users' = [users EXCEPT ![user_id].live = FALSE]
            /\ response' = Reply("delete_user", 204, 0)
    /\ UNCHANGED <<scripts, secrets, script_secrets, secret_audit_logs,
                   executions, tasks, registrations, clock>>


\* DELETE /admin/users/{user_id}
delete_user(credentials, user_id) ==
    LET auth == require_admin(credentials) IN
    /\ IF auth.status_code # 200 THEN
            /\ response' = Denied("delete_user", auth)
            /\ UNCHANGED users
       ELSE IF user_id = auth.user THEN
            /\ response' = [Reply("delete_user", 400, 0) EXCEPT !.detail = "Cannot delete yourself"]
            /\ UNCHANGED users
       ELSE IF user_id \notin Live(users) THEN
            /\ response' = Reply("delete_user", 404, 0)
            /\ UNCHANGED users
       ELSE
            /\ users' = [users EXCEPT ![user_id].live = FALSE]
            /\ response' = Reply("delete_user", 204, 0)
    /\ UNCHANGED <<scripts, secrets, script_secrets, secret_audit_logs,
                   executions, tasks, registrations, clock>>

\* PATCH /admin/users/{user_id}/toggle-active
toggle_user_active(credentials, user_id) ==
    LET auth == require_admin(credentials) IN
    /\ IF auth.status_code # 200 THEN
            /\ response' = Denied("toggle_user_active", auth)
            /\ UNCHANGED users
       ELSE IF user_id = auth.user THEN
            /\ response' = [Reply("toggle_user_active", 400, 0)
                               EXCEPT !.detail = "Cannot deactivate yourself"]
            /\ UNCHANGED users
       ELSE IF user_id \notin Live(users) THEN
            /\ response' = Reply("toggle_user_active", 404, 0)
            /\ UNCHANGED users
       ELSE
            /\ users' = [users EXCEPT ![user_id].is_active = ~@]
            /\ response' = Reply("toggle_user_active", 200, user_id)
    /\ UNCHANGED <<scripts, secrets, script_secrets, secret_audit_logs,
                   executions, tasks, registrations, clock>>


\* POST /admin/users ; the body is a UserCreate, which has no field role, so
\* the read of user_data.role for the new row raises AttributeError and the
\* request is answered 500 before anything is added.
create_user(credentials, username, email) ==
    LET auth == require_admin(credentials) IN
    /\ response' = IF auth.status_code # 200 THEN Denied("create_user", auth)
                   ELSE IF UserNamed(username) # {}
                        THEN [Reply("create_user", 400, 0) EXCEPT !.detail = "Username already registered"]
                   ELSE IF \E i \in Live(users) : users[i].email = email
                        THEN [Reply("create_user", 400, 0) EXCEPT !.detail = "Email already registered"]
                   ELSE [Reply("create_user", 500, 0) EXCEPT !.detail = "AttributeError"]
    /\ UNCHANGED <<users, scripts, secrets, script_secrets, secret_audit_logs,
                   executions, tasks, registrations, clock>>


\* ------------------------------------------- executions API: the dispatch
\* POST /executions, lines 82-97: the script is looked up and the pending
\* row is committed; the handler then holds the new row's id.  The worker is
\* another process, so it runs between this step and the next.
create_execution_commit(credentials, script_id) ==
    LET auth == get_current_user(credentials) IN
    /\ new_execution = 0
    /\ Len(executions) < MaxExecutions
    /\ IF auth.status_code # 200 THEN
            /\ response' = Denied("create_execution", auth)
            /\ UNCHANGED <<executions, tasks, new_execution>>
       ELSE IF script_id \notin Live(scripts) THEN
            /\ response' = Reply("create_execution", 404, 0)
            /\ UNCHANGED <<executions, tasks, new_execution>>
       ELSE
            /\ executions' = Append(executions, NewExecution(script_id, auth.user))
            /\ tasks' = Append(tasks, [NewTask EXCEPT !.pc = "unsent"])
            /\ new_execution' = Len(executions) + 1
            /\ UNCHANGED response
    /\ UNCHANGED <<users, scripts, secrets, script_secrets, secret_audit_logs,
                   registrations, clock, celery_queue>>

Message(execution_id) == [execution_id |-> execution_id, state |-> "queued"]

create_execution_delay_twice ==
    /\ new_execution # 0
    /\ celery_queue' = celery_queue \o << Message(new_execution), Message(new_execution) >>
    /\ response' = Reply("create_execution", 201, new_execution)
    /\ new_execution' = 0
    /\ UNCHANGED <<users, scripts, secrets, script_secrets, secret_audit_logs,
                   executions, tasks, registrations, clock>>


\* POST /executions, lines 99-102: execute_script_task.delay(new_execution.id)
\* sends one message with the id, and the row is returned with 201.
create_execution_delay ==
    /\ new_execution # 0
    /\ celery_queue' = Append(celery_queue, Message(new_execution))
    /\ response' = Reply("create_execution", 201, new_execution)
    /\ new_execution' = 0
    /\ UNCHANGED <<users, scripts, secrets, script_secrets, secret_audit_logs,
                   executions, tasks, registrations, clock>>

\* execute_script_task, lines 53-65: a worker takes a message and looks the
\* execution up; without the row it logs "not found" and returns.
task_receive(i) ==
    LET execution_id == celery_queue[i].execution_id IN
    /\ celery_queue[i].state = "queued"
    /\ IF execution_id \in DOMAIN executions
       THEN /\ celery_queue' = [celery_queue EXCEPT ![i].state = "received"]
            /\ tasks' = SetTask(execution_id, "queued")
       ELSE /\ celery_queue' = [celery_queue EXCEPT ![i].state = "not_found"]
            /\ UNCHANGED tasks
    /\ UNCHANGED <<users, scripts, secrets, script_secrets, secret_audit_logs,
                   executions, registrations, clock, response, published, new_execution>>


\* Time passes.
Tick ==
    /\ clock < MaxClock
    /\ clock' = clock + 1
    /\ UNCHANGED <<users, scripts, secrets, script_secrets, secret_audit_logs,
                   executions, tasks, registrations, response>>

\* ------------------------------------------------------------- RateLimiter
RateKeys == {"k1", "k2"}

\* RateLimiter.__init__ ; redis_ok: a Redis URL is configured and answers the
\* ping.  A sorted set whose members are str(score) is the set of its scores.
RateLimiter(redis_ok) ==
    [redis_client |-> redis_ok,
     redis |-> [key \in RateKeys |-> {}],
     local_cache |-> [key \in RateKeys |-> <<>>]]

\* The pipeline of _check_redis as <<verdict, the sorted set afterwards>>.
\* ZADD {str(current): current} runs whatever the verdict is, and adds
\* nothing when the member str(current) is already in the set.  EXPIRE is
\* left out: a key that has expired holds only scores ZREMRANGEBYSCORE
\* would remove.
check_redis(key, max_requests, window_seconds, current, window_start) ==
    LET kept == {ts \in rate_limiter.redis[key] : ts > window_start}
        request_count == Cardinality(kept)
    IN <<request_count < max_requests, kept \cup {current}>>

\* _check_local as <<verdict, the list afterwards>>.
check_local(key, max_requests, current, window_start) ==
    LET kept == SelectSeq(rate_limiter.local_cache[key], LAMBDA ts : ts > window_start) IN
    IF Len(kept) >= max_requests THEN <<FALSE, kept>>
    ELSE <<TRUE, Append(kept, current)>>

\* The verdict and the limiter after check_rate_limit; redis_error: the
\* pipeline raises, and the call falls back to the local cache.
CheckRateLimit(key, max_requests, window_seconds, redis_error) ==
    LET current == clock
        window_start == current - window_seconds
        by_redis == check_redis(key, max_requests, window_seconds, current, window_start)
        by_local == check_local(key, max_requests, current, window_start)
    IN IF rate_limiter.redis_client /\ ~redis_error
       THEN [allowed |-> by_redis[1],
             limiter |-> [rate_limiter EXCEPT !.redis[key] = by_redis[2]]]
       ELSE [allowed |-> by_local[1],
             limiter |-> [rate_limiter EXCEPT !.local_cache[key] = by_local[2]]]


\* check_rate_limit(key, max_requests, window_seconds) as one call, recorded
\* with its time and verdict.
check_rate_limit(key, max_requests, window_seconds, redis_error) ==
    LET r == CheckRateLimit(key, max_requests, window_seconds, redis_error) IN
    /\ Len(limiter_log) < MaxCalls
    /\ rate_limiter' = r.limiter
    /\ limiter_log' = Append(limiter_log,
           [key |-> key, at |-> clock, allowed |-> r.allowed,
            redis |-> rate_limiter.redis_client /\ ~redis_error])
    /\ UNCHANGED <<dbVars, clock, response, tokens, published, liveVars, toolVars, threadVars>>

\* --- check_rate_limit on the local cache, statement by statement: several
\* --- threads of the process (the thread pool that runs the plain `def`
\* --- routes) may be inside it at once.
NoCall == [pc |-> "idle", key |-> "", current |-> 0]

NoCalls ==
    /\ threads = [t \in 1..MaxThreads |-> NoCall]
    /\ lock = 0

\* Lines 140-152: the thread reads the clock, Redis is not configured or its
\* pipeline raises (redis_error), and the call goes on to _check_local.
check_rate_limit_fallback(t, key, redis_error) ==
    /\ threads[t].pc = "idle"
    /\ Len(limiter_log) + Cardinality({u \in DOMAIN threads : threads[u].pc # "idle"}) < MaxCalls
    /\ ~rate_limiter.redis_client \/ redis_error
    /\ threads' = [threads EXCEPT ![t] = [pc |-> "with", key |-> key, current |-> clock]]
    /\ UNCHANGED <<dbVars, clock, response, tokens, published, liveVars, toolVars,
                   rate_limiter, limiter_log, lock>>

\* Line 176, `with self.lock:` entered.
lock_acquire(t) ==
    /\ threads[t].pc = "with"
    /\ lock = 0
    /\ lock' = t
    /\ threads' = [threads EXCEPT ![t].pc = "clean"]
    /\ UNCHANGED <<dbVars, clock, response, tokens, published, liveVars, toolVars,
                   rate_limiter, limiter_log>>

\* Lines 177-181: the entries that have left the window are dropped.
check_local_clean(t, window_seconds) ==
    LET key == threads[t].key
        window_start == threads[t].current - window_seconds
    IN
    /\ threads[t].pc = "clean"
    /\ rate_limiter' = [rate_limiter EXCEPT !.local_cache[key] =
                            SelectSeq(@, LAMBDA ts : ts > window_start)]
    /\ threads' = [threads EXCEPT ![t].pc = "limit"]
    /\ UNCHANGED <<dbVars, clock, response, tokens, published, liveVars, toolVars,
                   limiter_log, lock>>

\* Lines 183-185: the verdict; a refused call returns False, and leaving
\* the with block releases the lock.
check_local_limit(t, max_requests) ==
    LET key == threads[t].key IN
    /\ threads[t].pc = "limit"
    /\ IF Len(rate_limiter.local_cache[key]) >= max_requests
       THEN /\ limiter_log' = Append(limiter_log,
                   [key |-> key, at |-> threads[t].current, allowed |-> FALSE,
                    redis |-> FALSE])
            /\ threads' = [threads EXCEPT ![t] = NoCall]
            /\ lock' = 0
       ELSE /\ threads' = [threads EXCEPT ![t].pc = "append"]
            /\ UNCHANGED <<limiter_log, lock>>
    /\ UNCHANGED <<dbVars, clock, response, tokens, published, liveVars, toolVars,
                   rate_limiter>>

\* Lines 187-189: the admitted call is appended and True returned.
check_local_append(t) ==
    LET key == threads[t].key IN
    /\ threads[t].pc = "append"
    /\ rate_limiter' = [rate_limiter EXCEPT !.local_cache[key] =
                            Append(@, threads[t].current)]
    /\ limiter_log' = Append(limiter_log,
           [key |-> key, at |-> threads[t].current, allowed |-> TRUE, redis |-> FALSE])
    /\ threads' = [threads EXCEPT ![t] = NoCall]
    /\ lock' = 0
    /\ UNCHANGED <<dbVars, clock, response, tokens, published, liveVars, toolVars>>

\* Wall-clock time passing between two calls.
Elapse(seconds) ==
    /\ clock + seconds <= MaxTime
    /\ clock' = clock + seconds
    /\ UNCHANGED <<dbVars, response, limiterVars, tokens, published, liveVars, toolVars>>

\* The execution ids clients open live-channel connections for.
ChannelIds == {1, 2}

\* Nothing has been published and no live-channel connection was opened.
NoChannel ==
    /\ published = [e \in 1..MaxExecutions |-> <<>>]
    /\ websockets = <<>>
    /\ active_connections = << >>
    /\ idle = [ws \in 1..MaxConnections |-> 0]
    /\ sending = [active |-> FALSE, execution_id |-> 0, content |-> "",
                  connections |-> {}, pending |-> {}, dead |-> {}]

\* ------------------------------------------------------ encryption services
\* Strings are sequences of code points, byte strings sequences of 0..255,
\* base64 text a sequence of alphabet positions 0..63 with 64 for "=".

\* str.encode() and bytes.decode(): UTF-8, for code points below 2048.
RECURSIVE encode(_)
encode(string) ==
    IF string = << >> THEN << >>
    ELSE (IF Head(string) < 128 THEN << Head(string) >>
          ELSE << 192 + (Head(string) \div 64), 128 + (Head(string) % 64) >>)
         \o encode(Tail(string))

RECURSIVE decode(_)
decode(bytes) ==
    IF bytes = << >> THEN << >>
    ELSE IF bytes[1] < 128 THEN << bytes[1] >> \o decode(Tail(bytes))
    ELSE << (bytes[1] - 192) * 64 + (bytes[2] - 128) >> \o decode(Tail(Tail(bytes)))

\* base64.urlsafe_b64encode: three bytes to four characters, "=" padding.
RECURSIVE urlsafe_b64encode(_)
urlsafe_b64encode(bytes) ==
    IF bytes = << >> THEN << >>
    ELSE IF Len(bytes) = 1 THEN
        << bytes[1] \div 4, (bytes[1] % 4) * 16, 64, 64 >>
    ELSE IF Len(bytes) = 2 THEN
        << bytes[1] \div 4, (bytes[1] % 4) * 16 + (bytes[2] \div 16),
           (bytes[2] % 16) * 4, 64 >>
    ELSE
        << bytes[1] \div 4, (bytes[1] % 4) * 16 + (bytes[2] \div 16),
           (bytes[2] % 16) * 4 + (bytes[3] \div 64), bytes[3] % 64 >>
        \o urlsafe_b64encode(SubSeq(bytes, 4, Len(bytes)))

\* base64.urlsafe_b64decode raises binascii.Error on text whose length is
\* not a multiple of four.
b64_padding_ok(text) == Len(text) % 4 = 0

RECURSIVE urlsafe_b64decode(_)
urlsafe_b64decode(text) ==
    IF text = << >> THEN << >>
    ELSE (IF text[3] = 64 THEN << text[1] * 4 + (text[2] \div 16) >>
          ELSE IF text[4] = 64 THEN
             << text[1] * 4 + (text[2] \div 16), (text[2] % 16) * 16 + (text[3] \div 4) >>
          ELSE
             << text[1] * 4 + (text[2] \div 16), (text[2] % 16) * 16 + (text[3] \div 4),
                (text[3] % 4) * 64 + text[4] >>)
         \o urlsafe_b64decode(SubSeq(text, 5, Len(text)))

\* settings.SECRET_KEY, the master key of every service instance.
SECRET_KEY == << 83, 75 >>

\* PBKDF2-HMAC-SHA256 of the master key under a salt: a different key for
\* each (master key, salt).
PBKDF2HMAC(master_key, salt) == << Len(master_key) >> \o master_key \o salt

\* Fernet: a token starts with the version byte 128 and is authenticated
\* under the key; iv is the randomness of one encryption.  decrypt raises
\* InvalidToken unless the token was made under the same key.
Fernet_encrypt(key, iv, data) == << 128, iv, Len(key) >> \o key \o data

Fernet_valid(key, token) ==
    /\ Len(token) >= 3 + Len(key)
    /\ token[1] = 128
    /\ token[3] = Len(key)
    /\ SubSeq(token, 4, 3 + Len(key)) = key

Fernet_decrypt(key, token) == SubSeq(token, 4 + Len(key), Len(token))

\* services/encryption_service.py, secrets.token_bytes(16) and combined[:16]
SaltLength == 16

\* The result of a call: ok is FALSE when it raised ValueError, cipher tells
\* whether a Fernet cipher was built and used.
Returned(value, cipher) == [ok |-> TRUE, value |-> value, cipher |-> cipher]
ValueError == [ok |-> FALSE, value |-> << >>, cipher |-> TRUE]

\* services/encryption_service.py, EncryptionService.encrypt: salt is the
\* random salt it draws.
encrypt_without_salt(string, salt, iv) ==
    IF string = << >> THEN Returned(<< >>, FALSE)
    ELSE Returned(urlsafe_b64encode(
                     Fernet_encrypt(PBKDF2HMAC(SECRET_KEY, salt), iv, encode(string))), TRUE)

encrypt(string, salt, iv) ==
    IF string = << >> THEN Returned(<< >>, FALSE)
    ELSE Returned(urlsafe_b64encode(
                     salt \o Fernet_encrypt(PBKDF2HMAC(SECRET_KEY, salt), iv, encode(string))),
                  TRUE)

\* services/encryption_service.py, EncryptionService.decrypt
decrypt(text) ==
    IF text = << >> THEN Returned(<< >>, FALSE)
    ELSE IF ~b64_padding_ok(text) THEN ValueError
    ELSE LET combined == urlsafe_b64decode(text)
             salt == SubSeq(combined, 1, SaltLength)
             encrypted == SubSeq(combined, SaltLength + 1, Len(combined))
             key == PBKDF2HMAC(SECRET_KEY, salt)
         IN IF Fernet_valid(key, encrypted)
            THEN Returned(decode(Fernet_decrypt(key, encrypted)), TRUE)
            ELSE ValueError

\* b'devops_script_manager_salt_v1'
fixed_salt ==
    << 100, 101, 118, 111, 112, 115, 95, 115, 99, 114, 105, 112, 116, 95, 109, 97,
       110, 97, 103, 101, 114, 95, 115, 97, 108, 116, 95, 118, 49 >>

\* core/encryption.py, EncryptionService.encrypt and decrypt: one key under
\* the fixed salt, no salt in the output.
core_encrypt(string, iv) ==
    IF string = << >> THEN Returned(<< >>, FALSE)
    ELSE Returned(urlsafe_b64encode(
                     Fernet_encrypt(PBKDF2HMAC(SECRET_KEY, fixed_salt), iv, encode(string))),
                  TRUE)

core_decrypt(text) ==
    IF text = << >> THEN Returned(<< >>, FALSE)
    ELSE IF ~b64_padding_ok(text) THEN ValueError
    ELSE LET encrypted == urlsafe_b64decode(text)
             key == PBKDF2HMAC(SECRET_KEY, fixed_salt)
         IN IF Fernet_valid(key, encrypted)
            THEN Returned(decode(Fernet_decrypt(key, encrypted)), TRUE)
            ELSE ValueError

\* services/encryption_service.py, LegacyEncryptionService.decrypt: the same
\* computation under the same fixed salt.
LegacyEncryptionService_decrypt(text) == core_decrypt(text)

\* One call of a service, with what it was given and what it returned.
Called(op, result) ==
    [op |-> op, ok |-> result.ok, value |-> result.value, cipher |-> result.cipher]

call_encrypt(string, salt, iv) ==
    /\ plaintext' = string
    /\ ciphertext' = [format |-> "current", text |-> encrypt(string, salt, iv).value]
    /\ outcome' = Called("encrypt", encrypt(string, salt, iv))

call_core_encrypt(string, iv) ==
    /\ plaintext' = string
    /\ ciphertext' = [format |-> "legacy", text |-> core_encrypt(string, iv).value]
    /\ outcome' = Called("core_encrypt", core_encrypt(string, iv))

call_decrypt ==
    /\ ciphertext.format # "none"
    /\ outcome' = Called("decrypt", decrypt(ciphertext.text))
    /\ UNCHANGED <<plaintext, ciphertext>>

call_core_decrypt ==
    /\ ciphertext.format # "none"
    /\ outcome' = Called("core_decrypt", core_decrypt(ciphertext.text))
    /\ UNCHANGED <<plaintext, ciphertext>>

call_legacy_decrypt ==
    /\ ciphertext.format # "none"
    /\ outcome' = Called("legacy_decrypt", LegacyEncryptionService_decrypt(ciphertext.text))
    /\ UNCHANGED <<plaintext, ciphertext>>

\* No encryption service has been called.
NoCrypto ==
    /\ plaintext = << >>
    /\ ciphertext = [format |-> "none", text |-> << >>]
    /\ outcome = [op |-> "none", ok |-> TRUE, value |-> << >>, cipher |-> FALSE]


\* ------------------------------------------------- secret migration tools
\* Both tools are named migrate_all_secrets: the one of
\* migrations/migrate_secrets_encryption.py and the one of
\* scripts/migrate_secrets.py.  session holds the rows as the tool's database
\* session sees them, encrypted_values what is committed; original keeps the
\* column as the run found it and failed the rows whose failure was logged.
NotStarted ==
    [tool |-> "none", pc |-> "idle", i |-> 0, session |-> << >>, original |-> << >>,
     migrated |-> 0, failed |-> 0, exit_status |-> NULL]

\* SessionLocal() and db.query(Secret).all()
migrate_all_secrets(tool) ==
    /\ migration.pc = "idle"
    /\ migration' = [NotStarted EXCEPT !.tool = tool, !.pc = "rows", !.i = 1,
                                       !.session = encrypted_values,
                                       !.original = encrypted_values]
    /\ UNCHANGED encrypted_values

\* migrations/migrate_secrets_encryption.py, lines 24-42: one turn of the
\* loop.  A row that decrypts in neither format is logged and passed over.
migrations_row(salt, iv) ==
    LET i == migration.i
        text == migration.session[i]
    IN
    /\ migration.pc = "rows"
    /\ migration.tool = "migrations"
    /\ i <= Len(migration.session)
    /\ migration' =
         IF decrypt(text).ok THEN [migration EXCEPT !.i = i + 1]
         ELSE IF LegacyEncryptionService_decrypt(text).ok THEN
            [migration EXCEPT
                !.session[i] = encrypt(LegacyEncryptionService_decrypt(text).value, salt, iv).value,
                !.migrated = @ + 1, !.i = i + 1]
         ELSE [migration EXCEPT !.failed = @ + 1, !.i = i + 1]
    /\ UNCHANGED encrypted_values

\* migrations/migrate_secrets_encryption.py, lines 44-45: commit, whatever
\* the loop logged; the function returns and the process exits with 0.
migrations_commit ==
    /\ migration.pc = "rows"
    /\ migration.tool = "migrations"
    /\ migration.i > Len(migration.session)
    /\ encrypted_values' = migration.session
    /\ migration' = [migration EXCEPT !.pc = "exited", !.exit_status = 0]

\* encryption_service._is_new_format: EncryptionService defines no such
\* attribute, so the call raises AttributeError.
is_new_format(text) == [ok |-> FALSE, value |-> FALSE]

\* scripts/migrate_secrets.py, lines 41-61: one turn of the loop.
scripts_row(salt, iv) ==
    LET i == migration.i
        text == migration.session[i]
    IN
    /\ migration.pc = "rows"
    /\ migration.tool = "scripts"
    /\ i <= Len(migration.session)
    /\ migration' =
         IF ~is_new_format(text).ok THEN [migration EXCEPT !.failed = @ + 1, !.i = i + 1]
         ELSE IF is_new_format(text).value THEN [migration EXCEPT !.i = i + 1]
         ELSE IF ~decrypt(text).ok THEN [migration EXCEPT !.failed = @ + 1, !.i = i + 1]
         ELSE [migration EXCEPT
                  !.session[i] = encrypt(decrypt(text).value, salt, iv).value,
                  !.migrated = @ + 1, !.i = i + 1]
    /\ UNCHANGED encrypted_values

\* scripts/migrate_secrets.py, lines 63-76: commit when no row failed, else
\* rollback and sys.exit(1).
scripts_finish ==
    /\ migration.pc = "rows"
    /\ migration.tool = "scripts"
    /\ migration.i > Len(migration.session)
    /\ IF migration.failed = 0 THEN
            /\ encrypted_values' = migration.session
            /\ migration' = [migration EXCEPT !.pc = "exited", !.exit_status = 0]
       ELSE
            /\ migration' = [migration EXCEPT !.pc = "exited", !.exit_status = 1,
                                              !.session = encrypted_values]
            /\ UNCHANGED encrypted_values

\* No migration tool has run; the column is not followed.
NoMigration ==
    /\ encrypted_values = << >>
    /\ migration = NotStarted


\* ------------------------------------------------------- execution engines
\* Three pieces of code run a script in a container: ExecutorService with
\* its strategies (services/executor_service.py, impl "services"),
\* DockerExecutor (core/docker_executor.py, impl "core") and the
\* execute_*_docker functions the worker calls (tasks/executor.py, impl
\* "tasks").  One run of the single-container types is followed: what the
\* Docker calls do is an input of each step.  stdout and stderr are the lines
\* gathered so far, result what the call returned, or that it raised, and
\* failed the Docker call that failed in this run.
NoRun ==
    [impl |-> "none", script_type |-> "none", pc |-> "idle", container |-> "none",
     failed |-> "none",
     parameters |-> [present |-> FALSE, parses |-> FALSE, value |-> 0],
     timeout |-> NULL, exit_code |-> NULL, stdout |-> << >>, stderr |-> << >>,
     result |-> [raised |-> FALSE, exit_code |-> NULL, stdout |-> << >>, stderr |-> << >>]]

\* return exit_code, stdout, stderr
ReturnFrom(run, exit_code, stdout, stderr) ==
    [run EXCEPT !.pc = "returned",
                !.result = [raised |-> FALSE, exit_code |-> exit_code,
                            stdout |-> stdout, stderr |-> stderr]]

\* An exception leaves the call.
RaiseFrom(run) == [run EXCEPT !.pc = "returned", !.result.raised = TRUE]

\* The timeout container.wait is given: the timeout argument of execute,
\* which no caller sets (default 300), or the literal of the worker's
\* function (tasks/executor.py lines 221, 310, 365).
wait_timeout(impl, script_type) ==
    IF impl = "tasks" /\ script_type = "ansible" THEN 600 ELSE 300

\* The entry: ExecutorService.execute (lines 441-483), DockerExecutor.execute
\* (lines 324-338, the client exists since the constructor returned) and
\* execute_bash_docker (lines 191-196).  parameters is the timeout entry of
\* the execution's parameters, which the worker copies into env_vars with
\* the other entries (tasks/executor.py lines 98-103).
execute(impl, script_type, docker_client, parameters) ==
    LET run == [NoRun EXCEPT !.impl = impl, !.script_type = script_type,
                             !.parameters = parameters,
                             !.timeout = wait_timeout(impl, script_type)]
    IN
    /\ engine.pc = "idle"
    /\ impl = "core" => docker_client
    /\ impl # "tasks" => ~parameters.present
    /\ engine' =
         IF ~docker_client
         THEN ReturnFrom([run EXCEPT !.failed = "unavailable"], 1, << >>,
                         << IF impl = "services" THEN "Docker is not available"
                            ELSE "Docker not available" >>)
         ELSE [run EXCEPT !.pc = IF impl = "tasks" THEN "create" ELSE "pull"]

\* _pull_image_if_needed and pull_image_if_needed, called before the try of
\* the strategy: ExecutorService.execute catches what they raise (lines
\* 481-483), DockerExecutor.execute has no handler.  In the worker's
\* function the pull is made by the ImageNotFound handler (lines 229-232),
\* which then calls the function again.
pull_image_if_needed(present, pull_ok) ==
    /\ engine.pc = "pull"
    /\ engine' =
         IF present \/ pull_ok THEN [engine EXCEPT !.pc = "create"]
         ELSE IF engine.impl = "services"
         THEN ReturnFrom([engine EXCEPT !.failed = "pull"], 1, << >>,
                         << "Fatal execution error" >>)
         ELSE RaiseFrom([engine EXCEPT !.failed = "pull"])

\* client.containers.create: created is "ok", "image_not_found" or "error".
containers_create(created) ==
    /\ engine.pc = "create"
    /\ engine' =
         IF created = "ok" THEN [engine EXCEPT !.pc = "start", !.container = "created"]
         ELSE IF created = "image_not_found" /\ engine.impl = "tasks"
         THEN [engine EXCEPT !.pc = "pull"]
         ELSE ReturnFrom([engine EXCEPT !.failed = "create"], 1, << >>,
                         << "Execution error" >>)

\* container.start()
container_start(ok) ==
    /\ engine.pc = "start"
    /\ engine' =
         IF ok THEN [engine EXCEPT !.pc = "stream", !.container = "running"]
         ELSE ReturnFrom([engine EXCEPT !.failed = "start"], 1, << >>,
                         << "Execution error" >>)

\* The words that make a line an error line; "fatal" is in the list of
\* ExecutionStrategy._stream_logs only.
is_error(impl, line) == line = "error" \/ (impl = "services" /\ line = "fatal")

\* _stream_logs, _stream_container_logs and stream_docker_logs: one line of
\* the container's output.
stream_logs(line) ==
    /\ engine.pc = "stream"
    /\ Len(engine.stdout) + Len(engine.stderr) < MaxLines
    /\ engine' =
         IF is_error(engine.impl, line)
         THEN [engine EXCEPT !.stderr = Append(@, line)]
         ELSE [engine EXCEPT !.stdout = Append(@, line)]

\* The end of the stream, or an exception while reading it: the worker's
\* function only logs it, the two classes add its text to stderr.
stream_logs_end(ok) ==
    /\ engine.pc = "stream"
    /\ engine' =
         IF ok THEN [engine EXCEPT !.pc = "wait"]
         ELSE IF engine.impl = "tasks" THEN [engine EXCEPT !.pc = "wait", !.failed = "stream"]
         ELSE [engine EXCEPT !.pc = "wait", !.failed = "stream",
                             !.stderr = Append(@, "Log streaming error")]

\* container.wait(timeout=...): the container's status code, or an
\* exception when the time is up (status_code = NULL).
container_wait(status_code) ==
    /\ engine.pc = "wait"
    /\ engine' =
         IF status_code = NULL
         THEN ReturnFrom([engine EXCEPT !.failed = "wait"], 1, << >>,
                         << "Execution error" >>)
         ELSE [engine EXCEPT !.pc = "remove", !.container = "exited",
                             !.exit_code = status_code]

\* container.remove(force=True) and the return of the result
container_remove(ok) ==
    /\ engine.pc = "remove"
    /\ engine' =
         IF ok
         THEN ReturnFrom([engine EXCEPT !.container = "removed"],
                         engine.exit_code, engine.stdout, engine.stderr)
         ELSE ReturnFrom([engine EXCEPT !.failed = "remove"], 1, << >>,
                         << "Execution error" >>)


\* ------------------------------------------------ secret values in the vault
\* The routes of api/routes/secrets.py encrypt and decrypt with the service
\* of core/encryption.py (import of line 9); SecretService, which the worker
\* calls for every secret of a script, decrypts with the service of
\* services/encryption_service.py (secret_service.py line 7).

\* secret.encrypted_value
encrypted_value(secret_id) ==
    IF secret_id \in DOMAIN encrypted_values THEN encrypted_values[secret_id] ELSE << >>

\* POST /secrets with the value it stores (lines 67-82)
create_secret_value(credentials, name, value, iv) ==
    /\ create_secret(credentials, name)
    /\ IF response'.status_code = 201
       THEN /\ encrypted_values' = Append(encrypted_values, core_encrypt(value, iv).value)
            /\ plaintext' = value
            /\ ciphertext' = [format |-> "legacy", text |-> core_encrypt(value, iv).value]
       ELSE UNCHANGED <<encrypted_values, plaintext, ciphertext>>
    /\ UNCHANGED outcome

\* PUT /secrets/{secret_id} with a value (lines 86-111)
update_secret(credentials, secret_id, value, iv) ==
    LET auth == require_operator(credentials) IN
    /\ IF auth.status_code # 200 THEN
            /\ response' = Denied("update_secret", auth)
            /\ UNCHANGED <<encrypted_values, plaintext, ciphertext>>
       ELSE IF secret_id \notin Live(secrets) THEN
            /\ response' = Reply("update_secret", 404, 0)
            /\ UNCHANGED <<encrypted_values, plaintext, ciphertext>>
       ELSE
            /\ encrypted_values' =
                   [encrypted_values EXCEPT ![secret_id] = core_encrypt(value, iv).value]
            /\ plaintext' = value
            /\ ciphertext' = [format |-> "legacy", text |-> core_encrypt(value, iv).value]
            /\ response' = Reply("update_secret", 200, secret_id)
    /\ UNCHANGED <<dbVars, clock, outcome>>

\* GET /secrets/{secret_id} with the value it returns (lines 43-52)
get_secret_decrypted(credentials, secret_id) ==
    LET decrypted == core_decrypt(encrypted_value(secret_id)) IN
    /\ get_secret(credentials, secret_id, decrypted.ok)
    /\ outcome' = IF response'.status_code \in {200, 500}
                  THEN Called("get_secret", decrypted) ELSE outcome
    /\ UNCHANGED <<encrypted_values, plaintext, ciphertext>>

\* GET /secrets/name/{secret_name} with the value it returns (lines 157-166)
get_secret_by_name_decrypted(credentials, name) ==
    LET found == SecretNamed(name)
        decrypted == IF found = {} THEN ValueError
                     ELSE core_decrypt(encrypted_value(CHOOSE i \in found : TRUE))
    IN
    /\ get_secret_by_name(credentials, name, decrypted.ok)
    /\ outcome' = IF response'.status_code \in {200, 500}
                  THEN Called("get_secret_by_name", decrypted) ELSE outcome
    /\ UNCHANGED <<encrypted_values, plaintext, ciphertext>>

\* SecretService.get_secret_value (lines 69-87), as the worker calls it for
\* execution execution_id: what decrypt raises leaves the method before the
\* access is logged.
get_secret_value(name, execution_id) ==
    LET found == SecretNamed(name)
        secret_id == CHOOSE i \in found : TRUE
        decrypted == decrypt(encrypted_value(secret_id))
    IN
    /\ found # {}
    /\ Len(secret_audit_logs) < MaxAuditLogs
    /\ outcome' = Called("get_secret_value", decrypted)
    /\ IF decrypted.ok
       THEN /\ secret_audit_logs' = log_access(secret_id, "injected", execution_id)[1]
            /\ secrets' = log_access(secret_id, "injected", execution_id)[2]
       ELSE UNCHANGED <<secrets, secret_audit_logs>>
    /\ UNCHANGED <<users, scripts, script_secrets, executions, tasks, registrations,
                   clock, response, encrypted_values, plaintext, ciphertext>>


\* ------------------------------------------------------------- quiet start
\* None of the components beside the API, the worker and the gateway has run.
NoTools == NoCrypto /\ NoMigration /\ engine = NoRun

\* Nothing was handed to the task queue and no request is about to.
NoDispatch ==
    /\ celery_queue = << >>
    /\ new_execution = 0

\* No rate-limit call has been made; the limiter runs on its local cache.
NoTraffic ==
    /\ rate_limiter = RateLimiter(FALSE)
    /\ limiter_log = <<>>
    /\ NoCalls
    /\ NoDispatch
    /\ tokens = NoTokens
    /\ NoChannel
    /\ NoTools

\* ------------------------------------------------------- SecurityMiddleware
WindowSeconds == 60

\* _get_rate_limit(endpoint), endpoint being "METHOD:path"
get_rate_limit(method, path) ==
    IF path \in {"/api/v1/auth/login", "/api/v1/auth/register"} THEN 5
    ELSE IF path = "/api/v1/executions" /\ method = "POST" THEN 10
    ELSE IF method = "GET" THEN 100
    ELSE 60

\* SecurityMiddleware.__call__(request, call_next); rate_key stands for
\* "rate_limit:{client_ip}:{endpoint}", call_next for the rest of the stack.
SecurityMiddleware(method, path, rate_key, redis_error, call_next) ==
    IF path = "/api/v1/health" THEN call_next /\ UNCHANGED limiterVars
    ELSE LET r == CheckRateLimit(rate_key, get_rate_limit(method, path),
                                 WindowSeconds, redis_error) IN
         /\ UNCHANGED threadVars
         /\ rate_limiter' = r.limiter
         /\ limiter_log' = Append(limiter_log,
                [key |-> rate_key, at |-> clock, allowed |-> r.allowed,
                 redis |-> rate_limiter.redis_client /\ ~redis_error])
         /\ IF r.allowed THEN call_next
            ELSE /\ response' = [route |-> "SecurityMiddleware", status_code |-> 429,
                                 detail |-> "Rate limit exceeded", n |-> 0]
                 /\ UNCHANGED <<dbVars, clock>>

\* GET /api/v1/health
health_check ==
    /\ response' = Reply("health_check", 200, 0)
    /\ UNCHANGED <<dbVars, clock>>

\* The application main.py builds: CORSMiddleware is the only middleware
\* added, and it hands every request to the router; SecurityMiddleware is
\* constructed nowhere.
app(call_next) ==
    /\ call_next
    /\ Quiet


\* ------------------------------------------------------------ live channel
WebSocketAuth_no_type_check(token) ==
    LET payload == decode_token(token) IN
    IF ~payload.present THEN "Invalid authentication token"
    ELSE IF ~payload.sub \/ payload.user_id = 0 THEN "Invalid token payload"
    ELSE "ok"

\* websocket_endpoint, lines 110-138: the reason the connection is closed
\* for, or "ok".
WebSocketAuth(token) ==
    LET payload == decode_token(token) IN
    IF ~payload.present THEN "Invalid authentication token"
    ELSE IF payload.type # "absent" /\ payload.type # "access" THEN "Invalid token type"
    ELSE IF ~payload.sub \/ payload.user_id = 0 THEN "Invalid token payload"
    ELSE "ok"

\* ConnectionManager.connect, lines 22-27, on the dict alone: the key is
\* created on the first connection of an execution.
ConnectionManager_connect(registry, ws, execution_id) ==
    IF execution_id \in DOMAIN registry
    THEN [registry EXCEPT ![execution_id] = @ \cup {ws}]
    ELSE [e \in DOMAIN registry \cup {execution_id} |->
             IF e = execution_id THEN {ws} ELSE registry[e]]

\* ConnectionManager.disconnect, lines 32-42, on the dict alone: the key is
\* deleted with its last connection.
ConnectionManager_disconnect_keeps_key(registry, ws, execution_id) ==
    IF execution_id \notin DOMAIN registry THEN registry
    ELSE [registry EXCEPT ![execution_id] = @ \ {ws}]

ConnectionManager_disconnect(registry, ws, execution_id) ==
    IF execution_id \notin DOMAIN registry THEN registry
    ELSE IF registry[execution_id] \ {ws} = {}
    THEN [e \in DOMAIN registry \ {execution_id} |-> registry[e]]
    ELSE [registry EXCEPT ![execution_id] = @ \ {ws}]

\* send_message, lines 65-67: disconnect for every dead connection.
RECURSIVE disconnect_all(_, _, _)
disconnect_all(registry, dead, execution_id) ==
    IF dead = {} THEN registry
    ELSE LET ws == CHOOSE c \in dead : TRUE IN
         disconnect_all(ConnectionManager_disconnect(registry, ws, execution_id),
                        dead \ {ws}, execution_id)

\* self.active_connections.get(execution_id, set())
connections_of(execution_id) ==
    IF execution_id \in DOMAIN active_connections
    THEN active_connections[execution_id] ELSE {}

\* get_connection_count, lines 89-93
RECURSIVE total_connections(_)
total_connections(registry) ==
    IF DOMAIN registry = {} THEN 0
    ELSE LET e == CHOOSE k \in DOMAIN registry : TRUE IN
         Cardinality(registry[e])
           + total_connections([k \in DOMAIN registry \ {e} |-> registry[k]])

get_connection_count(execution_id) ==
    IF execution_id = 0 THEN total_connections(active_connections)
    ELSE Cardinality(connections_of(execution_id))

\* The execution ids the gateway process holds a pub/sub subscription for.
\* WebSocketBridge.subscribe (websocket_bridge.py:64-74) is the only code
\* that subscribes, and nothing calls it: connect and disconnect start and
\* stop no subscription.
subscriptions == {}

\* GET /ws/stats, lines 229-239: it reads the dict and changes nothing.
websocket_stats ==
    [total_connections |-> get_connection_count(0),
     active_executions |-> Cardinality(DOMAIN active_connections)]

\* GET /ws/executions/{execution_id}?token=... up to the token check: a
\* refused connection is closed with code 4001 before it is accepted.
websocket_endpoint(execution_id, token) ==
    /\ Len(websockets) < MaxConnections
    /\ websockets' = Append(websockets,
           [execution_id |-> execution_id, token |-> token, frames |-> <<>>, since |-> 0,
            state |-> IF WebSocketAuth(token) = "ok" THEN "authenticated" ELSE "closed",
            code |-> IF WebSocketAuth(token) = "ok" THEN 0 ELSE 4001])
    /\ UNCHANGED <<dbVars, clock, response, limiterVars, tokens, published, toolVars,
                   active_connections, loopVars>>

\* ConnectionManager.connect and the confirmation frame, lines 140-154;
\* accept_ok: websocket.accept() does not raise.  since notes how many events
\* had been published for the execution when the connection registered; no
\* code reads it.
connect(ws, accept_ok) ==
    /\ websockets[ws].state = "authenticated"
    /\ IF accept_ok THEN
            /\ websockets' = [websockets EXCEPT
                   ![ws].state = "accepted",
                   ![ws].frames = <<[type |-> "connected", body |-> ""]>>,
                   ![ws].since = Len(published[websockets[ws].execution_id])]
            /\ active_connections' =
                   ConnectionManager_connect(active_connections, ws, websockets[ws].execution_id)
       ELSE
            /\ websockets' = [websockets EXCEPT ![ws].state = "failed"]
            /\ UNCHANGED active_connections
    /\ UNCHANGED <<dbVars, clock, response, limiterVars, tokens, published, toolVars, loopVars>>

\* The client leaves: the receive loop ends and ConnectionManager.disconnect
\* runs (lines 207-209, 225-226).
disconnect(ws) ==
    /\ websockets[ws].state = "accepted"
    /\ websockets' = [websockets EXCEPT ![ws].state = "closed", ![ws].code = 1000]
    /\ active_connections' =
           ConnectionManager_disconnect(active_connections, ws, websockets[ws].execution_id)
    /\ UNCHANGED <<dbVars, clock, response, limiterVars, tokens, published, toolVars, loopVars>>

\* ConnectionManager.send_message, reached through broadcast_log from
\* POST /ws/test/{execution_id} (lines 256-284), the only caller: a frame for
\* every registered connection; the ones whose send raises (dead) are
\* dropped from the set.
broadcast_log(execution_id, content, dead) ==
    LET connections == connections_of(execution_id) IN
    /\ dead \subseteq connections
    /\ \A ws \in connections : Len(websockets[ws].frames) < MaxFrames
    /\ websockets' = [ws \in DOMAIN websockets |->
           IF ws \in connections \ dead
           THEN [websockets[ws] EXCEPT !.frames = Append(@, Log("info", content))]
           ELSE websockets[ws]]
    /\ active_connections' = disconnect_all(active_connections, dead, execution_id)
    /\ response' = Reply("test_websocket_broadcast", 200, Cardinality(connections \ dead))
    /\ UNCHANGED <<dbVars, clock, limiterVars, tokens, published, toolVars, loopVars>>


\* ------------------------------------------- live channel: the receive loop
\* A text frame is a sequence of JSON tokens.  json.loads on the texts a
\* client sends here: an object of at most one member, an empty array, or a
\* scalar; anything else is a JSONDecodeError.
Punctuation == {"{", "}", "[", "]", ":"}

json_loads(data) ==
    IF data = << "{", "}" >>
    THEN [ok |-> TRUE, kind |-> "object", type |-> "None"]
    ELSE IF /\ Len(data) = 5
            /\ data[1] = "{" /\ data[3] = ":" /\ data[5] = "}"
            /\ data[2] \notin Punctuation \cup {"null"} /\ data[4] \notin Punctuation
    THEN [ok |-> TRUE, kind |-> "object",
          type |-> IF data[2] = "type" THEN data[4] ELSE "None"]
    ELSE IF data = << "[", "]" >>
    THEN [ok |-> TRUE, kind |-> "array", type |-> "None"]
    ELSE IF Len(data) = 1 /\ data[1] \notin Punctuation
    THEN [ok |-> TRUE, kind |-> IF data[1] = "null" THEN "null" ELSE "string",
          type |-> "None"]
    ELSE [ok |-> FALSE, kind |-> "JSONDecodeError", type |-> "None"]

\* asyncio.wait_for(websocket.receive_text(), timeout=300.0)
KeepaliveTimeout == 300

Frame(type, body, n) == [type |-> type, body |-> body, n |-> n]

\* Lines 166-193: what the handler does with a text it received: the frame
\* it sends, if any (type "none": nothing is sent), and the exception the
\* handling ends with ("none": the loop goes on).  message.get is called on
\* whatever json.loads returned, so a text that parses to something other
\* than an object raises AttributeError, which only the handler of line 211
\* catches.
handle_text(ws, data) ==
    LET message == json_loads(data) IN
    IF ~message.ok
    THEN [frame |-> Frame("error", "Invalid JSON format", 0), raised |-> "none"]
    ELSE IF message.kind # "object"
    THEN [frame |-> Frame("none", "", 0), raised |-> "AttributeError"]
    ELSE IF message.type = "ping"
    THEN [frame |-> Frame("pong", "", 0), raised |-> "none"]
    ELSE IF message.type = "status_request"
    THEN [frame |-> Frame("status_response", "",
                          get_connection_count(websockets[ws].execution_id)),
          raised |-> "none"]
    ELSE [frame |-> Frame("none", "", 0), raised |-> "none"]

\* The handler is in its receive loop.
Receiving(ws) == websockets[ws].state = "accepted"

\* Lines 211-220: the loop's last handler tries an error frame and breaks.
\* send_ok: that send_json does not raise.
loop_error(ws, send_ok) ==
    [websockets EXCEPT
        ![ws].state = "leaving",
        ![ws].frames = IF send_ok /\ Len(@) < MaxFrames
                       THEN Append(@, Frame("error", "Server error", 0)) ELSE @]

\* ConnectionManager.connect succeeded and the confirmation of line 149
\* raises: the handler of line 222 logs and the handler goes to its finally.
confirmation_fails(ws) ==
    /\ websockets[ws].state = "authenticated"
    /\ websockets' = [websockets EXCEPT ![ws].state = "leaving"]
    /\ active_connections' =
           ConnectionManager_connect(active_connections, ws, websockets[ws].execution_id)
    /\ UNCHANGED <<dbVars, clock, response, limiterVars, tokens, published, toolVars, loopVars>>

\* The connection stays silent for some more seconds.
wait_for(ws, seconds) ==
    /\ Receiving(ws)
    /\ idle[ws] < KeepaliveTimeout
    /\ idle' = [idle EXCEPT ![ws] =
                   IF @ + seconds < KeepaliveTimeout THEN @ + seconds ELSE KeepaliveTimeout]
    /\ UNCHANGED <<dbVars, clock, response, limiterVars, tokens, published, toolVars,
                   websockets, active_connections, sending>>

\* One turn of the loop on a text frame, lines 160-193.  send_ok: the
\* send_json of the answer does not raise; error_ok: nor does the one of
\* line 214.  A failed answer is an exception inside the loop's try, so it
\* ends at line 207 or 211 as well.
receive_text(ws, data, send_ok, error_ok) ==
    LET handled == handle_text(ws, data) IN
    /\ Receiving(ws)
    /\ idle[ws] < KeepaliveTimeout
    /\ (handled.raised = "none" /\ handled.frame.type # "none" /\ send_ok)
           => Len(websockets[ws].frames) < MaxFrames
    /\ websockets' =
          IF handled.raised # "none" THEN loop_error(ws, error_ok)
          ELSE IF handled.frame.type = "none" THEN websockets
          ELSE IF send_ok
          THEN [websockets EXCEPT ![ws].frames = Append(@, handled.frame)]
          ELSE loop_error(ws, FALSE)
    /\ idle' = [idle EXCEPT ![ws] = 0]
    /\ UNCHANGED <<dbVars, clock, response, limiterVars, tokens, published, toolVars,
                   active_connections, sending>>

\* receive_text raises: WebSocketDisconnect when the client has left (lines
\* 207-209), anything else on a server-side error (211-220).
receive_raises(ws, exception, error_ok) ==
    /\ Receiving(ws)
    /\ idle[ws] < KeepaliveTimeout
    /\ websockets' = IF exception = "WebSocketDisconnect"
                     THEN [websockets EXCEPT ![ws].state = "leaving"]
                     ELSE loop_error(ws, error_ok)
    /\ UNCHANGED <<dbVars, clock, response, limiterVars, tokens, published, toolVars,
                   active_connections, loopVars>>

\* Lines 195-205: nothing arrived for 300 seconds; the keepalive frame is
\* sent and the loop goes on, or its send raises and the loop breaks.
keepalive(ws, send_ok) ==
    /\ Receiving(ws)
    /\ idle[ws] = KeepaliveTimeout
    /\ send_ok => Len(websockets[ws].frames) < MaxFrames
    /\ websockets' =
          IF send_ok
          THEN [websockets EXCEPT ![ws].frames = Append(@, Frame("keepalive", "", 0))]
          ELSE [websockets EXCEPT ![ws].state = "leaving"]
    /\ idle' = [idle EXCEPT ![ws] = 0]
    /\ UNCHANGED <<dbVars, clock, response, limiterVars, tokens, published, toolVars,
                   active_connections, sending>>

\* Lines 225-226: the finally of the handler; the handler has ended.
handler_finally_keeps_connection(ws) ==
    /\ websockets[ws].state = "leaving"
    /\ websockets' = [websockets EXCEPT ![ws].state = "closed", ![ws].code = 1000]
    /\ UNCHANGED <<dbVars, clock, response, limiterVars, tokens, published, toolVars,
                   active_connections, loopVars>>

handler_finally(ws) ==
    /\ websockets[ws].state = "leaving"
    /\ websockets' = [websockets EXCEPT ![ws].state = "closed", ![ws].code = 1000]
    /\ active_connections' =
           ConnectionManager_disconnect(active_connections, ws, websockets[ws].execution_id)
    /\ UNCHANGED <<dbVars, clock, response, limiterVars, tokens, published, toolVars, loopVars>>

\* --- ConnectionManager.send_message, one await at a time
NoSend ==
    [active |-> FALSE, execution_id |-> 0, content |-> "",
     connections |-> {}, pending |-> {}, dead |-> {}]

\* Lines 46-53: nothing to do without the key, else the copy of the set the
\* loop runs over.
send_message(execution_id, content) ==
    /\ ~sending.active
    /\ execution_id \in DOMAIN active_connections
    /\ sending' = [active |-> TRUE, execution_id |-> execution_id, content |-> content,
                   connections |-> connections_of(execution_id),
                   pending |-> connections_of(execution_id), dead |-> {}]
    /\ UNCHANGED <<dbVars, clock, response, limiterVars, tokens, published, toolVars,
                   websockets, active_connections, idle>>

\* Lines 55-63: one send_text.  send_ok: it does not raise; on a socket
\* whose handler has ended it always does.
send_text_raises(ws, send_ok) ==
    /\ sending.active
    /\ ws \in sending.pending
    /\ send_ok => websockets[ws].state # "closed" /\ Len(websockets[ws].frames) < MaxFrames
    /\ IF send_ok
       THEN /\ websockets' = [websockets EXCEPT
                   ![ws].frames = Append(@, Log("info", sending.content))]
            /\ sending' = [sending EXCEPT !.pending = @ \ {ws}]
       ELSE /\ sending' = [sending EXCEPT !.pending = {}]
            /\ UNCHANGED websockets
    /\ UNCHANGED <<dbVars, clock, response, limiterVars, tokens, published, toolVars,
                   active_connections, idle>>

send_text(ws, send_ok) ==
    /\ sending.active
    /\ ws \in sending.pending
    /\ send_ok => websockets[ws].state # "closed" /\ Len(websockets[ws].frames) < MaxFrames
    /\ IF send_ok
       THEN /\ websockets' = [websockets EXCEPT
                   ![ws].frames = Append(@, Log("info", sending.content))]
            /\ sending' = [sending EXCEPT !.pending = @ \ {ws}]
       ELSE /\ sending' = [sending EXCEPT !.pending = @ \ {ws}, !.dead = @ \cup {ws}]
            /\ UNCHANGED websockets
    /\ UNCHANGED <<dbVars, clock, response, limiterVars, tokens, published, toolVars,
                   active_connections, idle>>

\* Lines 65-67: the loop is over; every dead connection is disconnected and
\* the call returns.
send_message_returns ==
    /\ sending.active
    /\ sending.pending = {}
    /\ active_connections' =
           disconnect_all(active_connections, sending.dead, sending.execution_id)
    /\ sending' = NoSend
    /\ UNCHANGED <<dbVars, clock, response, limiterVars, tokens, published, toolVars,
                   websockets, idle>>


\* ------------------------------------------------------------ specifications
SeedUser(username, role, is_active) ==
    [live |-> TRUE, username |-> username, email |-> username, role |-> role,
     is_active |-> is_active, last_login |-> NULL]

\* A user table after registrations and admin edits: one user of each role
\* and a deactivated operator.
SeedUsers ==
    << SeedUser("root", "admin", TRUE), SeedUser("olga", "operator", TRUE),
       SeedUser("vera", "viewer", TRUE), SeedUser("ivan", "operator", FALSE) >>

AdminToken == create_access_token(1)
OperatorToken == create_access_token(2)
ViewerToken == create_access_token(3)
InactiveToken == create_access_token(4)

Credentials ==
    {NoCredentials, BadToken, AdminToken, OperatorToken, ViewerToken, InactiveToken,
     create_refresh_token(2), create_access_token(9)}

NoResponse == Reply("none", 0, 0)

InitEmpty ==
    /\ users = <<>>
    /\ scripts = <<>>
    /\ secrets = <<>>
    /\ script_secrets = {}
    /\ secret_audit_logs = <<>>
    /\ executions = <<>>
    /\ tasks = <<>>
    /\ registrations = <<>>
    /\ clock = 0
    /\ response = NoResponse
    /\ NoTraffic

InitSeeded ==
    /\ users = SeedUsers
    /\ scripts = <<>>
    /\ secrets = <<>>
    /\ script_secrets = {}
    /\ secret_audit_logs = <<>>
    /\ executions = <<>>
    /\ tasks = <<>>
    /\ registrations = <<>>
    /\ clock = 0
    /\ response = NoResponse
    /\ NoTraffic

ExitCodes == {"zero", "nonzero", "raised"}

\* The operator's script "a" is already stored.
InitExec ==
    /\ users = SeedUsers
    /\ scripts = << [live |-> TRUE, name |-> <<"a">>, updated_by |-> 2] >>
    /\ secrets = <<>>
    /\ script_secrets = {}
    /\ secret_audit_logs = <<>>
    /\ executions = <<>>
    /\ tasks = <<>>
    /\ registrations = <<>>
    /\ clock = 0
    /\ response = NoResponse
    /\ NoTraffic

\* Executions: the execution routes, the script deletion that they guard and
\* the worker.
NextExec ==
    \/ \E script_id \in 1..MaxScripts : delete_script(OperatorToken, script_id) /\ Quiet
    \/ \E script_id \in 1..MaxScripts : create_execution(OperatorToken, script_id) /\ Quiet
    \/ \E e \in 1..(MaxExecutions + 1) : cancel_execution(NoCredentials, e) /\ Quiet
    \/ \E e \in DOMAIN tasks : task_load(e) /\ Silent
    \/ \E e \in DOMAIN tasks : task_mark_running(e) /\ Silent
    \/ \E e \in DOMAIN tasks : task_get_secrets(e) /\ Silent
    \/ \E e \in DOMAIN tasks : \E exit \in ExitCodes : task_execute(e, exit) /\ Silent
    \/ \E e \in DOMAIN tasks : task_commit_result(e) /\ Silent

SpecExec == InitExec /\ [][NextExec]_vars

Spec == SpecExec

\* The routes and their dependencies, called with every kind of credential;
\* the user table is fixed and the worker is not running.
NextAuth ==
    \/ \E c \in Credentials : list_scripts(c) /\ Quiet
    \/ \E c \in Credentials : create_script(c, <<"a">>, TRUE, TRUE) /\ Quiet
    \/ \E c \in Credentials : \E script_id \in 1..MaxScripts : delete_script(c, script_id) /\ Quiet
    \/ \E c \in Credentials : list_users(c) /\ Quiet
    \/ \E c \in Credentials : get_current_user_info(c) /\ Quiet
    \/ \E c \in Credentials : list_executions(c) /\ Quiet
    \/ \E c \in Credentials : \E e \in 1..MaxExecutions : get_execution(c, e) /\ Quiet
    \/ \E c \in Credentials : \E script_id \in 1..MaxScripts : create_execution(c, script_id) /\ Quiet
    \/ \E c \in Credentials : \E e \in 1..MaxExecutions : cancel_execution(c, e) /\ Quiet

SpecAuth == InitSeeded /\ [][NextAuth]_vars

\* The role-gated script and user routes, called with every kind of credential.
NextGates ==
    \/ \E c \in Credentials : list_scripts(c) /\ Quiet
    \/ \E c \in Credentials : create_script(c, <<"a">>, TRUE, TRUE) /\ Quiet
    \/ \E c \in Credentials : \E script_id \in 1..MaxScripts : delete_script(c, script_id) /\ Quiet
    \/ \E c \in Credentials : list_users(c) /\ Quiet
    \/ \E c \in Credentials : get_current_user_info(c) /\ Quiet

SpecGates == InitSeeded /\ [][NextGates]_vars

\* Role changes by the administrator, and role-gated routes called by the
\* users whose roles change.
NextRoles ==
    \/ \E c \in {AdminToken, OperatorToken} : \E user_id \in 1..3 : \E role \in UserRole :
          update_user(c, user_id, role, "unset") /\ Quiet
    \/ \E c \in {OperatorToken, ViewerToken} : list_users(c) /\ Quiet
    \/ \E c \in {OperatorToken, ViewerToken} : create_script(c, <<"a">>, TRUE, TRUE) /\ Quiet
    \/ \E c \in {OperatorToken, ViewerToken} : \E script_id \in 1..MaxScripts :
          delete_script(c, script_id) /\ Quiet

SpecRoles == InitSeeded /\ [][NextRoles]_vars

SeedScript(name) == [live |-> TRUE, name |-> name, updated_by |-> 2]

\* The operator's scripts "a" and "b" are already stored.
InitSecrets ==
    /\ users = SeedUsers
    /\ scripts = << SeedScript(<<"a">>), SeedScript(<<"b">>) >>
    /\ secrets = <<>>
    /\ script_secrets = {}
    /\ secret_audit_logs = <<>>
    /\ executions = <<>>
    /\ tasks = <<>>
    /\ registrations = <<>>
    /\ clock = 0
    /\ response = NoResponse
    /\ NoTraffic

SecretNames == {"s1", "s2"}

\* The secret vault and the attachment of secrets to scripts.
NextSecrets ==
    \/ \E name \in SecretNames : create_secret(OperatorToken, name) /\ Quiet
    \/ \E c \in {OperatorToken, ViewerToken} : \E secret_id \in 1..MaxSecrets :
          delete_secret(c, secret_id) /\ Quiet
    \/ \E script_id \in 1..MaxScripts : \E secret_id \in 1..MaxSecrets :
          attach_secret_to_script(OperatorToken, script_id, secret_id) /\ Quiet
    \/ \E script_id \in 1..MaxScripts : \E secret_id \in 1..MaxSecrets :
          detach_secret_from_script(OperatorToken, script_id, secret_id) /\ Quiet
    \/ \E script_id \in 1..MaxScripts : delete_script(OperatorToken, script_id) /\ Quiet

SpecSecrets == InitSecrets /\ [][NextSecrets]_vars

\* Script "a" with the secret "s1" attached to it.
InitAudit ==
    /\ users = SeedUsers
    /\ scripts = << SeedScript(<<"a">>) >>
    /\ secrets = << [live |-> TRUE, name |-> "s1", last_accessed_at |-> NULL] >>
    /\ script_secrets = { <<1, 1>> }
    /\ secret_audit_logs = << AuditRow(1, "attached_to_script", NULL) >>
    /\ executions = <<>>
    /\ tasks = <<>>
    /\ registrations = <<>>
    /\ clock = 0
    /\ response = NoResponse
    /\ NoTraffic

\* The three ways a secret's value is read: by id, by name, and by the
\* worker injecting it into an execution.
NextAudit ==
    \/ Tick /\ Quiet
    \/ \E c \in {OperatorToken, ViewerToken} : \E secret_id \in 1..MaxSecrets :
          \E decrypt_ok \in BOOLEAN : get_secret(c, secret_id, decrypt_ok) /\ Quiet
    \/ \E c \in {OperatorToken, ViewerToken} : \E name \in SecretNames :
          \E decrypt_ok \in BOOLEAN : get_secret_by_name(c, name, decrypt_ok) /\ Quiet
    \/ create_execution(OperatorToken, 1) /\ Quiet
    \/ \E e \in DOMAIN tasks : task_load(e) /\ Silent
    \/ \E e \in DOMAIN tasks : task_mark_running(e) /\ Silent
    \/ \E e \in DOMAIN tasks : task_get_secrets(e) /\ Silent
    \/ \E e \in DOMAIN tasks : \E name \in SecretNames : \E decrypt_ok \in BOOLEAN :
          task_inject_secret(e, name, decrypt_ok) /\ Silent
    \/ \E e \in DOMAIN tasks : \E exit \in ExitCodes : task_execute(e, exit) /\ Silent
    \/ \E e \in DOMAIN tasks : task_commit_result(e) /\ Silent

SpecAudit == InitAudit /\ [][NextAudit]_vars

Usernames == {"u1", "u2"}
Emails == {"e1", "e2"}

\* Concurrent POST /auth/register calls against an empty user table.
NextRegister ==
    \/ \E username \in Usernames : \E email \in Emails :
          register_check_username(username, email) /\ Quiet
    \/ \E r \in DOMAIN registrations : register_check_email(r) /\ Quiet
    \/ \E r \in DOMAIN registrations : register_count(r) /\ Quiet
    \/ \E r \in DOMAIN registrations : register_commit(r) /\ Quiet

SpecRegister == InitEmpty /\ [][NextRegister]_vars

\* Request names (the schema admits 1 to 255 characters): plain ones, ones
\* that differ from them only by what sanitize_string removes, and one that
\* is all whitespace.
Names ==
    { <<"a">>, <<"b">>, <<" ", "a">>, <<"a", "LF">>, <<"b", "NUL">>, <<" ">> }

Verdicts == { <<TRUE, TRUE>>, <<FALSE, TRUE>>, <<TRUE, FALSE>> }

\* The script catalog: creation, renaming and deletion.
NextScripts ==
    \/ \E c \in {OperatorToken, ViewerToken} : \E name \in Names : \E v \in Verdicts :
          create_script(c, name, v[1], v[2]) /\ Quiet
    \/ \E c \in {OperatorToken, ViewerToken} : \E script_id \in 1..MaxScripts :
          \E name_set \in BOOLEAN : \E name \in Names : \E v \in Verdicts :
             update_script(c, script_id, name_set, name, v[1], v[2]) /\ Quiet
    \/ \E script_id \in 1..MaxScripts : delete_script(OperatorToken, script_id) /\ Quiet

SpecScripts == InitSeeded /\ [][NextScripts]_vars

\* --- the rate limiter on its own: either backend, calls at any spacing
Delays == {59, 60}

InitLimiter ==
    /\ users = <<>>
    /\ scripts = <<>>
    /\ secrets = <<>>
    /\ script_secrets = {}
    /\ secret_audit_logs = <<>>
    /\ executions = <<>>
    /\ tasks = <<>>
    /\ registrations = <<>>
    /\ clock = 0
    /\ response = NoResponse
    /\ \E redis_ok \in BOOLEAN : rate_limiter = RateLimiter(redis_ok)
    /\ limiter_log = <<>>
    /\ NoCalls
    /\ NoDispatch
    /\ tokens = NoTokens
    /\ NoChannel
    /\ NoTools

NextLimiter ==
    \/ \E key \in RateKeys, redis_error \in BOOLEAN :
           check_rate_limit(key, MaxRequests, WindowSeconds, redis_error)
    \/ \E seconds \in Delays : Elapse(seconds)

SpecLimiter == InitLimiter /\ [][NextLimiter]_vars


\* --- the application as main.py assembles it
NextApp ==
    \/ app(health_check)
    \/ \E c \in Credentials : app(get_current_user_info(c))
    \/ \E c \in Credentials : app(list_scripts(c))
    \/ \E c \in Credentials : app(create_script(c, <<"a">>, TRUE, TRUE))
    \/ \E c \in Credentials : \E script_id \in 1..MaxScripts : app(delete_script(c, script_id))

SpecApp == InitSeeded /\ [][NextApp]_vars


\* --- sessions: login, refresh and the tokens they issue, while an admin
\* --- deactivates or deletes the holder and time passes
SessionTokens == {tokens.access_token, tokens.refresh_token, NoCredentials}

NextSession ==
    \/ \E username \in {"olga", "ivan", "nobody"} : \E password_ok \in BOOLEAN :
           login(username, password_ok) /\ UNCHANGED <<limiterVars, published, liveVars, toolVars, dispatchVars>>
    \/ \E token \in SessionTokens :
           refresh_token(token) /\ UNCHANGED <<limiterVars, published, liveVars, toolVars, dispatchVars>>
    \/ \E c \in SessionTokens : get_current_user_info(c) /\ Quiet
    \/ \E c \in SessionTokens : create_script(c, <<"a">>, TRUE, TRUE) /\ Quiet
    \/ \E user_id \in {2, 4} : toggle_user_active(AdminToken, user_id) /\ Quiet
    \/ delete_user(AdminToken, 2) /\ Quiet
    \/ Tick /\ Quiet

SpecSession == InitSeeded /\ [][NextSession]_vars


\* --- user administration: admins (root, and whoever is promoted) edit,
\* --- deactivate and delete users while logins are attempted
LoginNames == {"root", "olga", "vera", "ivan", "nobody"}

NextAdmin ==
    \/ \E username \in LoginNames : \E password_ok \in BOOLEAN :
           (password_ok => username \in {"vera", "nobody"})
               /\ login(username, password_ok) /\ UNCHANGED <<limiterVars, published, liveVars, toolVars, dispatchVars>>
    \/ \E c \in {AdminToken, OperatorToken} : \E user_id \in 1..3 : \E role \in UserRole :
           update_user(c, user_id, role, "unset") /\ Quiet
    \/ \E c \in {AdminToken, OperatorToken} : \E user_id \in {1, 2, 3, 5} :
           delete_user(c, user_id) /\ Quiet
    \/ \E c \in {AdminToken, OperatorToken} : \E user_id \in {1, 2, 3, 5} :
           toggle_user_active(c, user_id) /\ Quiet

SpecAdmin == InitSeeded /\ [][NextAdmin]_vars


\* --- the live channel's gateway: connections opened with every kind of token
\* The tokens handed to the gateway: good ones, one without a type claim,
\* an expired one, and ones the check must refuse.
WsTokens ==
    {OperatorToken, InactiveToken, BadToken, create_refresh_token(2),
     [create_access_token(2) EXCEPT !.type = "absent"],
     [create_access_token(2) EXCEPT !.exp = clock - 1],
     [create_access_token(2) EXCEPT !.sub = FALSE],
     [create_access_token(2) EXCEPT !.user_id = 0]}

NextChannel ==
    \/ \E execution_id \in ChannelIds : \E token \in WsTokens :
           websocket_endpoint(execution_id, token)
    \/ \E ws \in DOMAIN websockets : \E accept_ok \in BOOLEAN : connect(ws, accept_ok)
    \/ \E ws \in DOMAIN websockets : disconnect(ws)
    \/ \E execution_id \in ChannelIds :
           \E dead \in SUBSET connections_of(execution_id) :
               broadcast_log(execution_id, "test", dead)

SpecChannel == InitSeeded /\ [][NextChannel]_vars


\* --- the worker publishing while clients hold live-channel connections.
\* --- Nothing in the application calls WebSocketBridge.subscribe or reads
\* --- the channel "execution:<id>": no step moves a published event into a
\* --- connection's frames.
NextLive ==
    \/ create_execution(OperatorToken, 1) /\ Quiet
    \/ \E e \in DOMAIN tasks : task_load(e) /\ Silent
    \/ \E e \in DOMAIN tasks : task_mark_running(e) /\ Silent
    \/ \E e \in DOMAIN tasks : task_get_secrets(e) /\ Silent
    \/ \E e \in DOMAIN tasks : \E exit \in ExitCodes : task_execute(e, exit) /\ Silent
    \/ \E e \in DOMAIN tasks : task_commit_result(e) /\ Silent
    \/ \E execution_id \in ChannelIds : websocket_endpoint(execution_id, OperatorToken)
    \/ \E ws \in DOMAIN websockets : \E accept_ok \in BOOLEAN : connect(ws, accept_ok)
    \/ \E ws \in DOMAIN websockets : disconnect(ws)
    \/ \E execution_id \in ChannelIds : broadcast_log(execution_id, "test", {})

SpecLive == InitExec /\ [][NextLive]_vars

\* The Celery worker runs a task it has taken to its end, and the event loop
\* runs a coroutine that is ready.
WorkerStep ==
    \E e \in DOMAIN tasks :
        \/ task_load(e) \/ task_mark_running(e) \/ task_get_secrets(e)
        \/ \E exit \in ExitCodes : task_execute(e, exit)
        \/ task_commit_result(e)

SpecLiveFair == SpecLive /\ WF_vars(WorkerStep /\ Silent)


\* --- the worker and what it publishes, with executions cancelled and the
\* --- script deleted meanwhile, and a secret whose decryption may fail
NextWorker ==
    \/ create_execution(OperatorToken, 1) /\ Quiet
    \/ \E e \in 1..MaxExecutions : cancel_execution(NoCredentials, e) /\ Quiet
    \/ delete_script(OperatorToken, 1) /\ Quiet
    \/ \E e \in DOMAIN tasks : task_load(e) /\ Silent
    \/ \E e \in DOMAIN tasks : task_mark_running(e) /\ Silent
    \/ \E e \in DOMAIN tasks : task_get_secrets(e) /\ Silent
    \/ \E e \in DOMAIN tasks : \E name \in SecretNames : \E decrypt_ok \in BOOLEAN :
          task_inject_secret(e, name, decrypt_ok) /\ Silent
    \/ \E e \in DOMAIN tasks : \E exit \in ExitCodes : task_execute(e, exit) /\ Silent
    \/ \E e \in DOMAIN tasks : task_commit_result(e) /\ Silent

SpecWorker == InitAudit /\ [][NextWorker]_vars


\* --- the encryption services called directly: the service of
\* --- services/encryption_service.py, the one of core/encryption.py that the
\* --- secrets routes import, and the legacy reader
\* A step outside the API, the worker and the gateway.
Offline == UNCHANGED <<dbVars, clock, response, limiterVars, tokens, published, liveVars>>

\* "a" and "e" with an acute accent, which UTF-8 writes in two bytes
Alphabet == {97, 233}
Plaintexts == UNION {[1..n -> Alphabet] : n \in 0..MaxPlain}
Salts == {[i \in 1..SaltLength |-> byte] : byte \in {0, 255}}
IVs == {1, 2}

NextCrypto ==
    \/ \E string \in Plaintexts : \E salt \in Salts : \E iv \in IVs :
          call_encrypt(string, salt, iv) /\ Offline /\ UNCHANGED <<migrationVars, engine>>
    \/ \E string \in Plaintexts : \E iv \in IVs : call_core_encrypt(string, iv) /\ Offline /\ UNCHANGED <<migrationVars, engine>>
    \/ call_decrypt /\ Offline /\ UNCHANGED <<migrationVars, engine>>
    \/ call_core_decrypt /\ Offline /\ UNCHANGED <<migrationVars, engine>>
    \/ call_legacy_decrypt /\ Offline /\ UNCHANGED <<migrationVars, engine>>

SpecCrypto == InitEmpty /\ [][NextCrypto]_vars


\* --- the two migration tools over a table of stored secrets, each value
\* --- written by the secrets routes (legacy format), already in the current
\* --- format, or written under an earlier SECRET_KEY
StoredValues ==
    { core_encrypt(<< 97 >>, 1).value,
      core_encrypt(<< 233 >>, 2).value,
      encrypt(<< 97 >>, [i \in 1..SaltLength |-> 0], 1).value,
      urlsafe_b64encode(Fernet_encrypt(PBKDF2HMAC(<< 79, 76, 68 >>, fixed_salt), 1, << 97 >>)) }

InitMigration ==
    /\ users = SeedUsers
    /\ scripts = << >>
    /\ secrets = [i \in 1..MaxSecrets |->
                     [live |-> TRUE, name |-> IF i = 1 THEN "s1" ELSE "s2",
                      last_accessed_at |-> NULL]]
    /\ script_secrets = {}
    /\ secret_audit_logs = << >>
    /\ executions = << >>
    /\ tasks = << >>
    /\ registrations = << >>
    /\ clock = 0
    /\ response = NoResponse
    /\ rate_limiter = RateLimiter(FALSE)
    /\ limiter_log = << >>
    /\ NoCalls
    /\ NoDispatch
    /\ tokens = NoTokens
    /\ NoChannel
    /\ NoCrypto
    /\ engine = NoRun
    /\ encrypted_values \in [1..MaxSecrets -> StoredValues]
    /\ migration = NotStarted

NextMigration ==
    \/ \E tool \in {"migrations", "scripts"} :
          migrate_all_secrets(tool) /\ Offline /\ UNCHANGED <<cryptoVars, engine>>
    \/ \E salt \in Salts : \E iv \in IVs :
          migrations_row(salt, iv) /\ Offline /\ UNCHANGED <<cryptoVars, engine>>
    \/ migrations_commit /\ Offline /\ UNCHANGED <<cryptoVars, engine>>
    \/ \E salt \in Salts : \E iv \in IVs :
          scripts_row(salt, iv) /\ Offline /\ UNCHANGED <<cryptoVars, engine>>
    \/ scripts_finish /\ Offline /\ UNCHANGED <<cryptoVars, engine>>

SpecMigration == InitMigration /\ [][NextMigration]_vars


\* --- one run of each engine, with every Docker call free to fail
ScriptTypes == {"bash", "python", "ansible"}

\* The timeout entry of an execution's parameters: absent, not a number,
\* below the floor, inside the range, above the ceiling.
TimeoutParameters ==
    { [present |-> FALSE, parses |-> FALSE, value |-> 0],
      [present |-> TRUE, parses |-> FALSE, value |-> 0],
      [present |-> TRUE, parses |-> TRUE, value |-> 5],
      [present |-> TRUE, parses |-> TRUE, value |-> 60],
      [present |-> TRUE, parses |-> TRUE, value |-> 4000] }

NextEngine ==
    \/ \E impl \in {"services", "core", "tasks"} : \E script_type \in ScriptTypes :
       \E docker_client \in BOOLEAN : \E parameters \in TimeoutParameters :
          execute(impl, script_type, docker_client, parameters)
             /\ Offline /\ UNCHANGED <<cryptoVars, migrationVars>>
    \/ \E present \in BOOLEAN : \E pull_ok \in BOOLEAN :
          pull_image_if_needed(present, pull_ok)
             /\ Offline /\ UNCHANGED <<cryptoVars, migrationVars>>
    \/ \E created \in {"ok", "image_not_found", "error"} :
          containers_create(created) /\ Offline /\ UNCHANGED <<cryptoVars, migrationVars>>
    \/ \E ok \in BOOLEAN :
          container_start(ok) /\ Offline /\ UNCHANGED <<cryptoVars, migrationVars>>
    \/ \E line \in {"plain", "error", "fatal"} :
          stream_logs(line) /\ Offline /\ UNCHANGED <<cryptoVars, migrationVars>>
    \/ \E ok \in BOOLEAN :
          stream_logs_end(ok) /\ Offline /\ UNCHANGED <<cryptoVars, migrationVars>>
    \/ \E status_code \in {0, 2, NULL} :
          container_wait(status_code) /\ Offline /\ UNCHANGED <<cryptoVars, migrationVars>>
    \/ \E ok \in BOOLEAN :
          container_remove(ok) /\ Offline /\ UNCHANGED <<cryptoVars, migrationVars>>

SpecEngine == InitEmpty /\ [][NextEngine]_vars


\* --- the handler of an accepted connection, turn by turn
\* The texts a client sends: the two requests, an object of another type, an
\* object without a type, an empty object, an array, null, a bare string, a
\* truncated object and the empty text.
ClientTexts ==
    { << "{", "type", ":", "ping", "}" >>,
      << "{", "type", ":", "status_request", "}" >>,
      << "{", "type", ":", "subscribe", "}" >>,
      << "{", "id", ":", "ping", "}" >>,
      << "{", "}" >>,
      << "[", "]" >>,
      << "null" >>,
      << "ping" >>,
      << "{", "type", ":" >>,
      << >> }

IdleSteps == {300}

\* The first client sends text or stays idle long enough for a keepalive;
\* the others only connect and leave.
Talkers == {1}

\* Execution ids are interchangeable: the first client watches execution 1.
FirstWatched == IF websockets = << >> THEN {1} ELSE ChannelIds

NextHandler ==
    \/ \E execution_id \in FirstWatched : websocket_endpoint(execution_id, OperatorToken)
    \/ \E ws \in DOMAIN websockets : \E accept_ok \in BOOLEAN : connect(ws, accept_ok)
    \/ \E ws \in DOMAIN websockets : confirmation_fails(ws)
    \/ \E ws \in DOMAIN websockets \cap Talkers : \E seconds \in IdleSteps :
           wait_for(ws, seconds)
    \/ \E ws \in DOMAIN websockets \cap Talkers : \E data \in ClientTexts :
       \E send_ok \in BOOLEAN : \E error_ok \in BOOLEAN :
           receive_text(ws, data, send_ok, error_ok)
    \/ \E ws \in DOMAIN websockets :
       \E exception \in {"WebSocketDisconnect", "RuntimeError"} : \E error_ok \in BOOLEAN :
           receive_raises(ws, exception, error_ok)
    \/ \E ws \in DOMAIN websockets : \E send_ok \in BOOLEAN : keepalive(ws, send_ok)
    \/ \E ws \in DOMAIN websockets : handler_finally(ws)

SpecHandler == InitSeeded /\ [][NextHandler]_vars


\* --- broadcasts sent one connection at a time while clients come and go
NextBroadcast ==
    \/ \E execution_id \in FirstWatched : websocket_endpoint(execution_id, OperatorToken)
    \/ \E ws \in DOMAIN websockets : connect(ws, TRUE)
    \/ \E ws \in DOMAIN websockets : receive_raises(ws, "WebSocketDisconnect", FALSE)
    \/ \E ws \in DOMAIN websockets : handler_finally(ws)
    \/ \E execution_id \in ChannelIds : \E content \in {"m1", "m2"} :
           send_message(execution_id, content)
    \/ \E ws \in DOMAIN websockets : \E send_ok \in BOOLEAN : send_text(ws, send_ok)
    \/ send_message_returns

SpecBroadcast == InitSeeded /\ [][NextBroadcast]_vars



\* --- the limiter called several times within one window, at different
\* --- seconds
Pauses == {20, 60}

NextWindow ==
    \/ \E key \in RateKeys, redis_error \in BOOLEAN :
           check_rate_limit(key, MaxRequests, WindowSeconds, redis_error)
    \/ \E seconds \in Pauses : Elapse(seconds)

SpecWindow == InitLimiter /\ [][NextWindow]_vars



\* --- the limiter called from several threads at once, with Redis absent or
\* --- failing.  While calls are under way the clock may pass from one second
\* --- to the next, once in the life of a call; longer pauses lie between
\* --- calls.
InFlight == {t \in DOMAIN threads : threads[t].pc # "idle"}
SecondBoundary == {1}
LongPauses == {59, 60}

NextThreads ==
    \/ \E t \in 1..MaxThreads : \E redis_error \in BOOLEAN :
           check_rate_limit_fallback(t, "k1", redis_error)
    \/ \E t \in 1..MaxThreads : lock_acquire(t)
    \/ \E t \in 1..MaxThreads : check_local_clean(t, WindowSeconds)
    \/ \E t \in 1..MaxThreads : check_local_limit(t, MaxRequests)
    \/ \E t \in 1..MaxThreads : check_local_append(t)
    \/ \E seconds \in SecondBoundary :
          /\ InFlight # {}
          /\ \A t \in InFlight : threads[t].current = clock
          /\ Elapse(seconds)
    \/ \E seconds \in LongPauses : InFlight = {} /\ Elapse(seconds)

SpecThreads == InitLimiter /\ [][NextThreads]_vars



\* --- secret values written through the API and read back by the API and
\* --- by the worker's SecretService
\* A step on the vault: neither the limiter, the tokens, the live channel,
\* the migration tools nor an engine takes part.
InVault == UNCHANGED <<limiterVars, tokens, published, liveVars, migration, engine, dispatchVars>>

\* The values stored: the empty string, "a", and "e" with an acute accent
\* followed by "a".
SecretValues == {<< >>, << 97 >>, << 233, 97 >>}

NextVault ==
    \/ \E name \in SecretNames : \E value \in SecretValues : \E iv \in IVs :
          create_secret_value(OperatorToken, name, value, iv) /\ InVault
    \/ \E secret_id \in 1..MaxSecrets : \E value \in SecretValues : \E iv \in IVs :
          update_secret(OperatorToken, secret_id, value, iv) /\ InVault
    \/ \E secret_id \in 1..MaxSecrets :
          get_secret_decrypted(OperatorToken, secret_id) /\ InVault
    \/ \E name \in SecretNames :
          get_secret_by_name_decrypted(OperatorToken, name) /\ InVault
    \/ \E name \in SecretNames : get_secret_value(name, 1) /\ InVault

SpecVault == InitSeeded /\ [][NextVault]_vars



\* --- the admins among the users: every Admin API operation, by whoever
\* --- holds the admin role at the time
ActiveAdmins == {i \in Live(users) : users[i].role = "admin" /\ users[i].is_active}

NextCustody ==
    \/ \E c \in {AdminToken, OperatorToken} : \E username \in {"root", "new"} :
           \E email \in {"olga", "new"} :
           create_user(c, username, email) /\ Quiet
    \/ \E c \in {AdminToken, OperatorToken} : \E user_id \in 1..3 :
           \E role \in UserRole \cup {"unset"} : \E is_active \in {"unset", "true", "false"} :
           update_user(c, user_id, role, is_active) /\ Quiet
    \/ \E c \in {AdminToken, OperatorToken} : \E user_id \in {1, 2, 3, 5} :
           delete_user(c, user_id) /\ Quiet
    \/ \E c \in {AdminToken, OperatorToken} : \E user_id \in {1, 2, 3, 5} :
           toggle_user_active(c, user_id) /\ Quiet

SpecCustody == InitSeeded /\ [][NextCustody]_vars



\* --- dispatch: POST /executions in its two steps, the queue and the
\* --- workers that take messages from it
\* A step that writes to the task queue.
Dispatching == UNCHANGED <<limiterVars, tokens, liveVars, toolVars>>

NextDispatch ==
    \/ \E c \in {OperatorToken, BadToken} : \E script_id \in 1..MaxScripts :
          create_execution_commit(c, script_id) /\ Dispatching /\ UNCHANGED published
    \/ create_execution_delay /\ Dispatching /\ UNCHANGED published
    \/ \E i \in DOMAIN celery_queue : task_receive(i) /\ Dispatching
    \/ \E e \in DOMAIN tasks : task_load(e) /\ Silent
    \/ \E e \in DOMAIN tasks : task_mark_running(e) /\ Silent
    \/ \E e \in DOMAIN tasks : task_get_secrets(e) /\ Silent
    \/ \E e \in DOMAIN tasks : \E exit \in ExitCodes : task_execute(e, exit) /\ Silent
    \/ \E e \in DOMAIN tasks : task_commit_result(e) /\ Silent
    \/ \E e \in 1..(MaxExecutions + 1) : cancel_execution(NoCredentials, e) /\ Quiet
    \/ \E script_id \in 1..MaxScripts : delete_script(OperatorToken, script_id) /\ Quiet

SpecDispatch == InitExec /\ [][NextDispatch]_vars



\* ------------------------------------------------------------------ claims
\* The claims' own reading of "a valid bearer access token" and of rank.
ValidAccessToken(c) ==
    /\ c.scheme = "bearer" /\ c.valid /\ c.type = "access"
    /\ c.user_id \in Live(users)
    /\ users[c.user_id].is_active

RoleRank == [viewer |-> 1, operator |-> 2, admin |-> 3]

CallerIs(c, roles) == ValidAccessToken(c) /\ users[c.user_id].role \in roles

Rejected == response'.status_code \in {401, 403}

\* C1: an execution created through POST /executions starts pending; cancelling
\* a pending or running execution sets it to cancelled; cancelling a success,
\* failed or cancelled execution is answered with a 4xx and changes no table.
C1_CreatePendingCancelContract ==
    [][ /\ \A c \in Credentials : \A script_id \in 1..MaxScripts :
            (create_execution(c, script_id) /\ response'.status_code = 201)
            => /\ Len(executions') = Len(executions) + 1
               /\ executions'[Len(executions')].status = "pending"
               /\ SubSeq(executions', 1, Len(executions)) = executions
        /\ \A c \in Credentials : \A e \in DOMAIN executions :
            cancel_execution(c, e)
            => IF executions[e].status \in {"pending", "running"}
               THEN /\ response'.status_code = 200
                    /\ executions' = [executions EXCEPT ![e].status = "cancelled"]
               ELSE /\ response'.status_code \in 400..499
                    /\ executions' = executions
                    /\ UNCHANGED <<users, scripts, secrets, script_secrets,
                                   secret_audit_logs, tasks>>
      ]_vars

\* C1 witness: a cancel of a finished execution has just been rejected, and
\* another execution has been cancelled while the worker was running it.
C1_Witness ==
    /\ response.route = "cancel_execution"
    /\ response.status_code = 400
    /\ \E e \in DOMAIN executions : executions[e].status \in {"success", "failed"}
    /\ \E e \in DOMAIN executions :
          executions[e].status = "cancelled" /\ executions[e].started_at # NULL

AllowedTransitions ==
    {<<"pending", "running">>, <<"running", "success">>, <<"running", "failed">>,
     <<"pending", "cancelled">>, <<"running", "cancelled">>}

\* C2: every change of a stored execution status is pending->running,
\* running->success, running->failed, pending->cancelled or running->cancelled;
\* a cancelled execution is never moved on by the worker.
C2_OnlyAllowedTransitions ==
    [][ \A e \in DOMAIN executions :
            \/ executions'[e].status = executions[e].status
            \/ <<executions[e].status, executions'[e].status>> \in AllowedTransitions
      ]_vars

\* C3 (the invariant): no execution in status pending or running refers to a
\* script that has been deleted.
C3_NoActiveExecutionOfDeletedScript ==
    \A e \in DOMAIN executions :
        executions[e].status \in {"pending", "running"}
        => executions[e].script_id \in Live(scripts)

\* C4: delete_secret on a secret attached to one or more scripts is rejected
\* with an error that reports the number of attachments, and the secret and
\* its attachments remain; on a secret attached to no script it succeeds; no
\* script_secrets row ever refers to a deleted secret.
C4_DeleteSecretGuard ==
    /\ [](\A a \in script_secrets : a[2] \in Live(secrets))
    /\ [][ \A c \in {OperatorToken, ViewerToken} : \A secret_id \in Live(secrets) :
             (delete_secret(c, secret_id) /\ CallerIs(c, {"operator", "admin"}))
             => IF UsageCount(secret_id) > 0
                THEN /\ response'.status_code \in 400..499
                     /\ response'.n = UsageCount(secret_id)
                     /\ secrets' = secrets
                     /\ script_secrets' = script_secrets
                ELSE /\ response'.status_code = 204
                     /\ secret_id \notin Live(secrets')
         ]_vars

\* C4 witness: one secret has been deleted, and the deletion of another, which
\* is attached to both scripts, has just been refused with the count 2.
C4_Witness ==
    /\ response.route = "delete_secret"
    /\ response.status_code = 400
    /\ response.n = 2
    /\ \E i \in DOMAIN secrets : ~secrets[i].live
    /\ \E i \in Live(secrets) : UsageCount(i) = 2

\* C5: every successful read of a secret's value, by id, by name or by
\* injection into an execution, appends exactly one audit row for that secret
\* and sets its last_accessed_at no earlier than the read.
C5_EveryReadIsAudited ==
    [][ \A secret_id \in Live(secrets) :
          LET Audited ==
                /\ Len(secret_audit_logs') = Len(secret_audit_logs) + 1
                /\ SubSeq(secret_audit_logs', 1, Len(secret_audit_logs)) = secret_audit_logs
                /\ secret_audit_logs'[Len(secret_audit_logs')].secret_id = secret_id
                /\ secrets'[secret_id].last_accessed_at >= clock
          IN
          /\ \A c \in {OperatorToken, ViewerToken} :
                (get_secret(c, secret_id, TRUE) /\ response'.status_code = 200) => Audited
          /\ \A c \in {OperatorToken, ViewerToken} :
                (get_secret_by_name(c, secrets[secret_id].name, TRUE)
                    /\ response'.status_code = 200) => Audited
          /\ \A e \in DOMAIN tasks :
                task_inject_secret(e, secrets[secret_id].name, TRUE) => Audited
      ]_vars

\* C6: every route other than register, login, refresh and health rejects a
\* request without a valid bearer access token and leaves the tables alone.
C6_EveryRouteNeedsBearer ==
    [][ \A c \in Credentials : ~ValidAccessToken(c) =>
          /\ list_scripts(c) => Rejected
          /\ create_script(c, <<"a">>, TRUE, TRUE) => Rejected /\ scripts' = scripts
          /\ \A script_id \in 1..MaxScripts :
                delete_script(c, script_id) => Rejected /\ scripts' = scripts
          /\ list_users(c) => Rejected
          /\ get_current_user_info(c) => Rejected
          /\ \A script_id \in 1..MaxScripts :
                create_execution(c, script_id) => Rejected /\ executions' = executions
          /\ list_executions(c) => Rejected
          /\ \A e \in 1..MaxExecutions : get_execution(c, e) => Rejected
          /\ \A e \in 1..MaxExecutions :
                cancel_execution(c, e) => Rejected /\ executions' = executions
      ]_vars

\* C7: a viewer gets 403 on script creation and on admin user listing, with
\* scripts and users unchanged, and 200 on script listing and on their own
\* profile; a route gated by RoleChecker(r) has its effect only for a caller
\* whose rank is at least the rank of r.
C7_ViewerAndRoleGates ==
    [][ \A c \in Credentials :
          /\ CallerIs(c, {"viewer"}) =>
                /\ create_script(c, <<"a">>, TRUE, TRUE)
                      => response'.status_code = 403 /\ UNCHANGED <<scripts, users>>
                /\ list_users(c)
                      => response'.status_code = 403 /\ UNCHANGED <<scripts, users>>
                /\ list_scripts(c) => response'.status_code = 200
                /\ get_current_user_info(c)
                      => response'.status_code = 200 /\ response'.n = c.user_id
          /\ (create_script(c, <<"a">>, TRUE, TRUE) /\ scripts' # scripts)
                => CallerIs(c, UserRole) /\ RoleRank[users[c.user_id].role] >= RoleRank["operator"]
          /\ \A script_id \in 1..MaxScripts :
                (delete_script(c, script_id) /\ scripts' # scripts)
                => CallerIs(c, UserRole) /\ RoleRank[users[c.user_id].role] >= RoleRank["operator"]
          /\ (list_users(c) /\ response'.status_code = 200)
                => CallerIs(c, UserRole) /\ RoleRank[users[c.user_id].role] >= RoleRank["admin"]
      ]_vars

\* C7 witness: a script exists (an operator or admin created it) and a caller
\* was just refused script creation for lack of the operator role.
C7_Witness ==
    /\ response.route = "create_script"
    /\ response.status_code = 403
    /\ response.detail = "Operation requires operator role or higher"
    /\ Live(scripts) # {}

\* C8: for every stored user role u and every required role r,
\* has_permission(u, r) holds exactly when rank(u) >= rank(r), with viewer = 1,
\* operator = 2, admin = 3; an operator passes viewer and operator and fails admin.
C8_HasPermissionIsRankOrder ==
    \A u \in Live(users) :
        /\ \A r \in UserRole :
              has_permission(users[u].role, r) <=> RoleRank[users[u].role] >= RoleRank[r]
        /\ users[u].role = "operator" =>
              /\ has_permission(users[u].role, "viewer")
              /\ has_permission(users[u].role, "operator")
              /\ ~has_permission(users[u].role, "admin")

\* C8 witness: the viewer has been promoted to operator and created a script,
\* and a caller was refused the admin user listing for lack of the admin role.
C8_Witness ==
    /\ users[3].role = "operator"
    /\ \E i \in Live(scripts) : scripts[i].updated_by = 3
    /\ response.route = "list_users"
    /\ response.detail = "Operation requires admin role or higher"

Admins == {i \in Live(users) : users[i].role = "admin"}

\* C9: a registration against an empty user table creates an admin and every
\* later one a viewer, so that under any interleaving of register calls that
\* start from an empty table exactly one user is an admin.
C9_ExactlyOneAdmin ==
    /\ [](Live(users) # {} => Cardinality(Admins) = 1)
    /\ [][ \A r \in DOMAIN registrations :
             (register_commit(r) /\ users' # users)
             => users'[Len(users')].role = IF Live(users) = {} THEN "admin" ELSE "viewer"
         ]_vars

UniqueNames ==
    \A i, j \in Live(scripts) : scripts[i].name = scripts[j].name => i = j

AdmittedInWindow(i) ==
    {j \in 1..(i - 1) :
        /\ limiter_log[j].key = limiter_log[i].key
        /\ limiter_log[j].allowed
        /\ limiter_log[j].at > limiter_log[i].at - WindowSeconds}

OneBackend(i) ==
    \A j \in 1..i :
        limiter_log[j].key = limiter_log[i].key
            => limiter_log[j].redis = limiter_log[i].redis

C11_WindowCeiling ==
    \A i \in 1..Len(limiter_log) :
        OneBackend(i) =>
            (limiter_log[i].allowed <=> Cardinality(AdmittedInWindow(i)) < MaxRequests)


\* C12: every request other than the health check passes the rate-limit check
\* before its handler runs: the step that serves it records one
\* check_rate_limit call, and when that call is refused the answer is 429 and
\* the handler has changed nothing.
C12_RateLimitBeforeHandler ==
    [][ response' # response /\ response'.route # "health_check" =>
            /\ Len(limiter_log') = Len(limiter_log) + 1
            /\ ~limiter_log'[Len(limiter_log')].allowed =>
                   (response'.status_code = 429 /\ UNCHANGED dbVars) ]_vars


\* The holder of the issued token pair, and whether the pair is still usable.
Holder == tokens.access_token.user_id
HolderActive == Holder \in Live(users) /\ users[Holder].is_active

\* C13: the pair a login (or refresh) returns is an access token of type
\* access with an expiry and a refresh token of type refresh.  The access
\* token authenticates an API call; the refresh token is accepted by
\* POST /auth/refresh and answered 401 when sent as the bearer credential;
\* the access token handed to POST /auth/refresh is answered 401.
C13_TokenPairRoles ==
    /\ [](tokens # NoTokens =>
            /\ tokens.access_token.type = "access"
            /\ tokens.refresh_token.type = "refresh"
            /\ tokens.refresh_token.user_id = Holder)
    /\ [][ /\ tokens' # tokens =>
                /\ response'.status_code = 200
                /\ tokens'.access_token.exp = clock + ACCESS_TOKEN_EXPIRE
                /\ tokens'.refresh_token.exp = clock + REFRESH_TOKEN_EXPIRE
           /\ tokens # NoTokens =>
                /\ (get_current_user_info(tokens.access_token) /\ HolderActive
                        /\ clock <= tokens.access_token.exp)
                      => response' = Reply("get_current_user_info", 200, Holder)
                /\ get_current_user_info(tokens.refresh_token)
                      => response'.status_code = 401
                /\ (refresh_token(tokens.refresh_token) /\ HolderActive
                        /\ clock <= tokens.refresh_token.exp)
                      => (response' = Reply("refresh_token", 200, Holder)
                            /\ tokens' = create_tokens(Holder))
                /\ refresh_token(tokens.access_token)
                      => (response'.status_code = 401 /\ UNCHANGED tokens) ]_vars

C13_Witness ==
    /\ tokens # NoTokens
    /\ response = Reply("refresh_token", 200, 2)
    /\ users[2].last_login # NULL

C15_LoginDoesNotRevealUsers ==
    [][ \A username \in LoginNames : \A password_ok \in BOOLEAN :
            (login(username, password_ok)
                /\ (UserNamed(username) = {} \/ ~password_ok))
            => /\ response' = Denied("login", LoginResult("nobody", TRUE))
               /\ UNCHANGED <<dbVars, tokens>> ]_vars

\* A login was refused while a promoted, deactivated user was in the table.
C15_Witness ==
    /\ response.route = "login"
    /\ response.status_code = 401
    /\ \E i \in Live(users) : users[i].role = "admin" /\ ~users[i].is_active
    /\ UserNamed("nobody") = {}

\* C16: an admin's DELETE /admin/users/{id}, PUT /admin/users/{id} with a
\* role other than admin, and PATCH /admin/users/{id}/toggle-active against
\* the admin's own id are answered 400 and leave the user table as it was.
C16_AdminSelfGuards ==
    [][ \A c \in {AdminToken, OperatorToken} :
            LET auth == require_admin(c) IN
            auth.status_code = 200 =>
                ((\/ delete_user(c, auth.user)
                  \/ toggle_user_active(c, auth.user)
                  \/ \E role \in UserRole \ {"admin"} : update_user(c, auth.user, role, "unset"))
                 => (response'.status_code = 400 /\ UNCHANGED users)) ]_vars

\* olga, promoted to admin, tried to delete herself.
C16_Witness ==
    /\ response.route = "delete_user"
    /\ response.status_code = 400
    /\ users[1].role # "admin"
    /\ users[2].live /\ users[2].role = "admin"


\* C17: a live-channel connection is accepted and registered only if its
\* token decodes, is of type access or carries no type, and has a subject and
\* a user id; any other connection is closed with code 4001 and is never
\* accepted nor registered.
GoodChannelToken(token) ==
    /\ token.valid /\ clock <= token.exp
    /\ token.type \in {"access", "absent"}
    /\ token.sub /\ token.user_id # 0

Registered(ws) == \E e \in DOMAIN active_connections : ws \in active_connections[e]

C17_ChannelNeedsAccessToken ==
    \A ws \in DOMAIN websockets :
        IF GoodChannelToken(websockets[ws].token)
        THEN /\ websockets[ws].code # 4001
             /\ Registered(ws) => websockets[ws].state = "accepted"
        ELSE /\ websockets[ws].state = "closed"
             /\ websockets[ws].code = 4001
             /\ websockets[ws].frames = <<>>
             /\ ~Registered(ws)

\* One connection with a token without a type is registered, and one with a
\* refresh token was closed with 4001.
C17_Witness ==
    /\ \E ws \in DOMAIN websockets :
           websockets[ws].token.type = "absent" /\ Registered(ws)
    /\ \E ws \in DOMAIN websockets :
           websockets[ws].token.type = "refresh" /\ websockets[ws].code = 4001


\* C18: every log or status event published for an execution while a
\* connection is registered for it reaches that connection as a frame, and
\* the frames arrive in the order of publication: a registered connection
\* never holds events out of order, and it either leaves or comes to hold
\* every event published since it registered.
Owed(ws) ==
    LET events == published[websockets[ws].execution_id] IN
    SubSeq(events, websockets[ws].since + 1, Len(events))

Got(ws) ==
    SelectSeq(websockets[ws].frames,
              LAMBDA frame : frame.type \in {"log", "status"} /\ frame.body # "test")

C18_PublishedEventsAreDelivered ==
    \A ws \in 1..MaxConnections :
        /\ [](ws \in DOMAIN websockets =>
                 (Len(Got(ws)) <= Len(Owed(ws))
                    /\ Got(ws) = SubSeq(Owed(ws), 1, Len(Got(ws)))))
        /\ []((ws \in DOMAIN websockets /\ Registered(ws))
                 => <>(~Registered(ws) \/ Got(ws) = Owed(ws)))


\* The places of the log events and of the final status events among the
\* events published for execution e.
LogEvents(e) == {i \in DOMAIN published[e] : published[e][i].type = "log"}
FinalEvents(e) ==
    {i \in DOMAIN published[e] :
        published[e][i].type = "status" /\ published[e][i].body \in {"success", "failed"}}

\* C19: for every execution the running status event is published before
\* any log event, and the final status event (success or failed) is
\* published exactly once, after every log line: never twice, never before a
\* log line, and once the worker's invocation has ended it has been
\* published.
C19_StatusEventsFrameTheLog ==
    \A e \in DOMAIN tasks :
        /\ LogEvents(e) # {} => published[e][1] = Status("running")
        /\ Cardinality(FinalEvents(e)) <= 1
        /\ \A i \in FinalEvents(e) : \A j \in LogEvents(e) : j < i
        /\ tasks[e].pc = "done" => Cardinality(FinalEvents(e)) = 1

\* C20: an execution the worker marked running has, once the worker's
\* invocation for it has ended, a terminal status and a completion time, and
\* if it failed the failed status event was published: no execution is left
\* running by a worker that has finished with it.
C20_RunningReachesTerminal ==
    \A e \in DOMAIN tasks :
        (tasks[e].pc = "done" /\ executions[e].started_at # NULL) =>
            /\ executions[e].status \in {"success", "failed", "cancelled"}
            /\ executions[e].completed_at # NULL
            /\ executions[e].status = "failed" => Status("failed") \in
                   {published[e][i] : i \in DOMAIN published[e]}


\* C21: when the worker's orchestration raises an unhandled exception the
\* unit of work is retried and, once the worker has finished with it for
\* good, the execution is recorded as failed with the error detail; a script
\* that merely exits with a non-zero code is recorded as failed.
C21_UnhandledExceptionEndsFailed ==
    \A e \in DOMAIN tasks :
        tasks[e].pc = "done" =>
            /\ tasks[e].exit = "fatal" =>
                   (executions[e].status = "failed" /\ executions[e].error # "none")
            /\ tasks[e].exit = "nonzero" => executions[e].status = "failed"


\* C22: decrypting what encrypt returned for a plaintext gives that plaintext
\* back, under the same master key; the empty string encrypts to the empty
\* string and the empty ciphertext decrypts to the empty string, neither
\* invoking the cipher.
C22_EncryptDecryptRoundTrip ==
    /\ (outcome.op = "decrypt" /\ ciphertext.format = "current") =>
           (outcome.ok /\ outcome.value = plaintext)
    /\ (outcome.op = "encrypt" /\ plaintext = << >>) =>
           (ciphertext.text = << >> /\ ~outcome.cipher)
    /\ (outcome.op = "decrypt" /\ ciphertext.text = << >>) =>
           (outcome.ok /\ outcome.value = << >> /\ ~outcome.cipher)

C22_Witness ==
    /\ outcome.op = "decrypt"
    /\ ciphertext.format = "current"
    /\ Len(plaintext) = MaxPlain
    /\ \E i \in DOMAIN plaintext : plaintext[i] > 127
    /\ outcome.cipher


\* C23: a value encrypted in the legacy format (fixed salt, no embedded
\* salt) decrypts to its original plaintext through the decrypt entry point
\* that serves current-format values.
C23_LegacyValueDecrypts ==
    (outcome.op = "decrypt" /\ ciphertext.format = "legacy") =>
        (outcome.ok /\ outcome.value = plaintext)


\* C24: the migration is all-or-nothing in both tools: when a row failed,
\* the tool has ended with a failure status and every stored
\* encrypted_value is what it was before the run; the migrated values are
\* committed only when no row failed.
C24_MigrationAllOrNothing ==
    migration.pc = "exited" =>
        /\ migration.failed > 0 =>
               (encrypted_values = migration.original /\ migration.exit_status # 0)
        /\ encrypted_values # migration.original => migration.failed = 0


\* C29: a backing pub/sub subscription for an execution id exists exactly
\* while at least one connection is registered for it (at most one per id,
\* as subscriptions is a set).
C29_SubscriptionWhileConnected ==
    \A execution_id \in ChannelIds :
        (execution_id \in subscriptions) <=> (connections_of(execution_id) # {})

\* C30: no key of the registry maps to an empty set, so /ws/stats reports as
\* active_executions the number of executions with a registered connection
\* and as total_connections the number of registered connections.
C30_NoEmptyRegistryKey ==
    /\ \A execution_id \in DOMAIN active_connections :
           active_connections[execution_id] # {}
    /\ websocket_stats.active_executions =
           Cardinality({execution_id \in ChannelIds :
                            \E ws \in DOMAIN websockets : ws \in connections_of(execution_id)})
    /\ websocket_stats.total_connections =
           Cardinality({ws \in DOMAIN websockets : Registered(ws)})

\* The last connection of one execution was pruned as dead or has left,
\* while a connection of the other execution is registered.
C30_Witness ==
    \E ws \in DOMAIN websockets : \E other \in DOMAIN websockets :
        /\ websockets[ws].state \in {"accepted", "closed"}
        /\ websockets[ws].code # 4001
        /\ ~Registered(ws)
        /\ websockets[ws].execution_id \notin DOMAIN active_connections
        /\ Registered(other)


\* C27: once the worker has finished an execution for which the engine
\* returned (exit_code, stdout, stderr), the execution holds stdout as its
\* output, stderr as its error only if exit_code was non-zero and no error
\* otherwise, status success if and only if exit_code was 0 and failed
\* otherwise, and a completion time.
C27_EngineResultIsStored ==
    \A e \in DOMAIN tasks :
        (tasks[e].pc = "done" /\ tasks[e].exit \in {"zero", "nonzero"}) =>
            /\ executions[e].output = TRUE
            /\ executions[e].error = (IF tasks[e].exit = "zero" THEN "none" ELSE "stderr")
            /\ executions[e].status = (IF tasks[e].exit = "zero" THEN "success" ELSE "failed")
            /\ executions[e].completed_at # NULL

C27_Witness ==
    \E e \in DOMAIN tasks : \E f \in DOMAIN tasks :
        /\ tasks[e].pc = "done" /\ tasks[e].exit = "zero"
        /\ executions[e].status = "success"
        /\ tasks[f].pc = "done" /\ tasks[f].exit = "nonzero"
        /\ executions[f].error = "stderr"

\* C28: an execution whose script was gone when the worker loaded it is
\* failed with error "Script not found", has a completion time and a failed
\* status event, and was never running.
C28_MissingScriptFailsCleanly ==
    \A e \in DOMAIN tasks :
        (tasks[e].pc = "done" /\ executions[e].error = "script_not_found") =>
            /\ executions[e].status = "failed"
            /\ executions[e].started_at = NULL
            /\ executions[e].completed_at # NULL
            /\ \E i \in DOMAIN published[e] : published[e][i] = Status("failed")


\* C25: a call of an engine's execute never leaves by an exception, and when
\* a Docker call failed in the run (runtime unavailable, pull, create, start,
\* log stream, wait timeout) the result has a non-zero exit code and the
\* error text in stderr.
C25_EngineContainsErrors ==
    engine.pc = "returned" =>
        /\ ~engine.result.raised
        /\ engine.failed # "none" =>
               (engine.result.exit_code # 0 /\ engine.result.stderr # << >>)

\* The timeout the claim of C26 describes, from the timeout entry of the
\* parameters.
ResolvedTimeout(parameters) ==
    IF ~(parameters.present /\ parameters.parses) THEN 300
    ELSE IF parameters.value < 10 THEN 10
    ELSE IF parameters.value > 3600 THEN 3600
    ELSE parameters.value

\* C26: the timeout the worker's run waits with is the timeout entry of the
\* execution's parameters clamped into [10, 3600] when it is present and
\* parses as an integer, and 300 otherwise.
C26_TimeoutFromParameters ==
    (engine.impl = "tasks" /\ engine.pc # "idle") =>
        engine.timeout = ResolvedTimeout(engine.parameters)


\* C31: a live-channel connection whose handler has ended, whether the
\* accept failed, the client left, the receive loop met an error or a
\* keepalive could not be sent, is in no set of the registry; and the
\* handler that sends a keepalive after 300 idle seconds stays in its loop
\* with its connection registered as before.
C31_EndedHandlerIsDeregistered ==
    /\ [](\A ws \in DOMAIN websockets :
             websockets[ws].state \in {"closed", "failed"}
             => \A e \in DOMAIN active_connections : ws \notin active_connections[e])
    /\ [][ \A ws \in DOMAIN websockets :
              keepalive(ws, TRUE)
              => /\ idle[ws] = KeepaliveTimeout
                 /\ Receiving(ws)'
                 /\ active_connections' = active_connections
                 /\ ws \in connections_of(websockets[ws].execution_id) ]_vars

\* A handler that had sent a keepalive has ended since, and another client
\* of the same execution is still registered.
C31_Witness ==
    \E ws \in DOMAIN websockets :
        /\ websockets[ws].state = "closed"
        /\ websockets[ws].code = 1000
        /\ \E i \in DOMAIN websockets[ws].frames : websockets[ws].frames[i].type = "keepalive"
        /\ connections_of(websockets[ws].execution_id) # {}

\* C32: when a broadcast to the connections of an execution returns, every
\* connection of its snapshot whose send raised is out of the registry and
\* every other connection of the snapshot holds the message; no step of the
\* broadcast touches a connection or a registry entry of another execution.
C32_FailedSendDoesNotStopBroadcast ==
    [][ /\ send_message_returns
           => /\ \A ws \in sending.dead :
                    \A e \in DOMAIN active_connections' : ws \notin active_connections'[e]
              /\ \A ws \in sending.connections \ sending.dead :
                    \E i \in DOMAIN websockets[ws].frames :
                        websockets[ws].frames[i] = Log("info", sending.content)
              /\ \A e \in ChannelIds \ {sending.execution_id} :
                    /\ e \in DOMAIN active_connections <=> e \in DOMAIN active_connections'
                    /\ e \in DOMAIN active_connections
                          => active_connections'[e] = active_connections[e]
        /\ \A ws \in DOMAIN websockets : \A send_ok \in BOOLEAN :
              send_text(ws, send_ok)
              => /\ websockets[ws].execution_id = sending.execution_id
                 /\ \A other \in DOMAIN websockets \ {ws} :
                       websockets'[other] = websockets[other]
                 /\ active_connections' = active_connections ]_vars

\* Two clients watch one execution and both handlers are in their loops: a
\* broadcast reached one of them, the other was dropped from the registry.
C32_Witness ==
    \E ws, other \in DOMAIN websockets :
        /\ websockets[ws].execution_id = websockets[other].execution_id
        /\ Receiving(ws) /\ Receiving(other)
        /\ ~sending.active
        /\ other \in connections_of(websockets[other].execution_id)
        /\ ws \notin connections_of(websockets[ws].execution_id)
        /\ \E i \in DOMAIN websockets[other].frames : websockets[other].frames[i].type = "log"
        /\ \A i \in DOMAIN websockets[ws].frames : websockets[ws].frames[i].type # "log"

\* C33: a text frame of a client whose connection is healthy never ends the
\* connection: the handler stays in its loop and the registry is as before;
\* a ping is answered with pong, a status_request with the number of
\* connections registered for the execution, and a text that is not JSON or
\* is JSON other than an object with an error frame.
C33_ClientFramesAreAnsweredInBand ==
    [][ \A ws \in DOMAIN websockets : \A data \in ClientTexts :
           receive_text(ws, data, TRUE, TRUE)
           => LET message == json_loads(data)
                  answer == websockets'[ws].frames[Len(websockets'[ws].frames)]
              IN /\ Receiving(ws)'
                 /\ active_connections' = active_connections
                 /\ (message.ok /\ message.kind = "object" /\ message.type = "ping")
                       => answer.type = "pong"
                 /\ (message.ok /\ message.kind = "object" /\ message.type = "status_request")
                       => /\ answer.type = "status_response"
                          /\ answer.n = Cardinality(connections_of(websockets[ws].execution_id))
                 /\ (~message.ok \/ message.kind # "object")
                       => answer.type = "error" ]_vars

\* C34: once a run of an engine has returned, whatever its outcome, the
\* container it created has been removed.
C34_ContainerRemovedAfterRun ==
    engine.pc = "returned" => engine.container \in {"none", "removed"}

\* C35: on either backend one check_rate_limit call drops the key's entries
\* that have left the window, is admitted exactly when fewer than
\* max_requests entries remain, and records itself only when admitted: after
\* a refused call the key holds the remaining entries and nothing else.
C35_RefusedCallRecordsNothing ==
    [][ \A key \in RateKeys : \A redis_error \in BOOLEAN :
           check_rate_limit(key, MaxRequests, WindowSeconds, redis_error)
           => LET window_start == clock - WindowSeconds
                  allowed == limiter_log'[Len(limiter_log')].allowed
              IN IF rate_limiter.redis_client /\ ~redis_error
                 THEN LET remaining == {ts \in rate_limiter.redis[key] : ts > window_start}
                      IN /\ allowed <=> Cardinality(remaining) < MaxRequests
                         /\ rate_limiter'.redis[key] =
                               IF allowed THEN remaining \cup {clock} ELSE remaining
                 ELSE LET remaining == SelectSeq(rate_limiter.local_cache[key],
                                                 LAMBDA ts : ts > window_start)
                      IN /\ allowed <=> Len(remaining) < MaxRequests
                         /\ rate_limiter'.local_cache[key] =
                               IF allowed THEN Append(remaining, clock) ELSE remaining ]_vars

\* C36: a check_rate_limit call made while Redis is absent or failing is
\* decided by the local cache and leaves the Redis store alone, and the
\* calls the local cache admits for a key never number more than
\* max_requests within one window, however the threads making them are
\* interleaved.
AdmittedLocally(i) ==
    {j \in DOMAIN limiter_log :
        /\ limiter_log[j].key = limiter_log[i].key
        /\ ~limiter_log[j].redis
        /\ limiter_log[j].allowed
        /\ limiter_log[j].at > limiter_log[i].at - WindowSeconds
        /\ limiter_log[j].at <= limiter_log[i].at}

C36_FallbackKeepsCeiling ==
    /\ \A i \in DOMAIN limiter_log :
          ~limiter_log[i].redis => Cardinality(AdmittedLocally(i)) <= MaxRequests
    /\ rate_limiter.redis = RateLimiter(TRUE).redis
    /\ \A t \in DOMAIN threads : threads[t].pc \in {"idle", "with", "clean", "limit", "append"}

\* C37: every read of a secret, by GET /secrets/{id}, by GET
\* /secrets/name/{name} and by SecretService.get_secret_value for the
\* worker, returns the plaintext whose encryption POST /secrets or PUT
\* /secrets/{id} stored.
ReadsBack(secret_id) ==
    /\ outcome'.ok
    /\ \E iv \in IVs : core_encrypt(outcome'.value, iv).value = encrypted_value(secret_id)

C37_StoredSecretReadsBack ==
    [][ /\ \A secret_id \in Live(secrets) :
              get_secret_decrypted(OperatorToken, secret_id) => ReadsBack(secret_id)
        /\ \A name \in SecretNames :
              (SecretNamed(name) # {} /\ get_secret_by_name_decrypted(OperatorToken, name))
              => ReadsBack(CHOOSE i \in SecretNamed(name) : TRUE)
        /\ \A name \in SecretNames :
              get_secret_value(name, 1)
              => ReadsBack(CHOOSE i \in SecretNamed(name) : TRUE) ]_vars

\* C38: once an active user with the role admin exists, one still exists
\* after every operation of the Admin API (create, update, delete,
\* toggle-active); the seeded table starts with the active admin root.
C38_ActiveAdminRemains == ActiveAdmins # {}

\* C39: create_execution sends exactly one message per execution, and only
\* for a pending row that is already committed; a request answered 404 adds
\* neither a row nor a message; a worker that takes a message always finds
\* the execution.
Messages(execution_id) ==
    {i \in DOMAIN celery_queue : celery_queue[i].execution_id = execution_id}

C39_EnqueuedOnceAfterCommit ==
    /\ [](\A i \in DOMAIN celery_queue :
             /\ celery_queue[i].execution_id \in DOMAIN executions
             /\ celery_queue[i].state # "not_found")
    /\ [](\A e \in DOMAIN executions :
             Cardinality(Messages(e)) = IF e = new_execution THEN 0 ELSE 1)
    /\ [][ /\ celery_queue' # celery_queue /\ Len(celery_queue') > Len(celery_queue)
              => /\ Len(celery_queue') = Len(celery_queue) + 1
                 /\ LET e == celery_queue'[Len(celery_queue')].execution_id IN
                    /\ e \in DOMAIN executions
                    /\ executions[e].status \in {"pending", "cancelled"}
                    /\ response' = Reply("create_execution", 201, e)
           /\ (response'.route = "create_execution" /\ response'.status_code = 404
               /\ response' # response)
              => UNCHANGED <<executions, celery_queue>>
           /\ \A i \in DOMAIN celery_queue :
                 task_receive(i) => tasks'[celery_queue[i].execution_id].pc = "queued" ]_vars

\* The worker took the message of execution 1 and found the row, and a
\* request for a script that does not exist was answered 404.
C39_Witness ==
    /\ Len(celery_queue) = 1
    /\ celery_queue[1].state = "received"
    /\ response.route = "create_execution"
    /\ response.status_code = 404
    /\ Len(executions) = 1

\* C40: after every create_script and update_script every stored script has
\* a name that is not empty.
C40_StoredNamesNonEmpty == \A i \in Live(scripts) : scripts[i].name # << >>

====
